---- MODULE Spec2Model ----
(***************************************************************************)
(* Model of the chat-summary plugin: the daily SummaryScheduler with its   *)
(* ON_START handler (src/plugin.py) and the record validators of           *)
(* ChatAnalysisUtils (src/core/analysis_utils.py).                         *)
(*                                                                         *)
(* Time is counted in seconds of local wall-clock time since 00:00 of day  *)
(* 0 in the configured zone; the zone itself is kept fixed and the wall    *)
(* clock never runs backwards.                                             *)
(***************************************************************************)
EXTENDS Integers, Sequences, FiniteSets, TLC

\* ------------------------------------------------------------------ bounds
MaxDay == 1          \* the clock is followed over days 0 .. MaxDay-1 (and a little beyond)
MaxTasks == 2        \* loop tasks created by start()
MaxErrors == 1       \* failed cycles (callback raised, fire time rejected)
MaxLen == 3          \* items in the list given to a validator
MaxTopicLen == 6     \* items in the list given to the topic validator
MaxMsgs == 4         \* messages in a transcript
MaxText == 3         \* codepoints in a text whose emoji are counted

\* ------------------------------------------------------- program constants
Day == 86400         \* timedelta(days=1), in seconds
Hour == 3600
Minute == 60
BackoffSeconds == 60 \* await asyncio.sleep(60) after a failed cycle
DefaultHour == 23    \* hour, minute = 23, 0
DefaultMinute == 0
NoDate == -1         \* last_execution_date = None
NoTask == 0          \* task = None

\* seconds before its deadline at which the wall clock may stand when a sleep
\* is resumed (the sleep is timed by the event loop's own clock)
EarlyWake == {0, 1}

VARIABLES
    clock,            \* local wall-clock time, seconds
    cfgTime,          \* config "auto_summary.time", a list of ':'-separated fields
    cfgEnabled,       \* config "plugin.enabled"
    cfgAuto,          \* config "auto_summary.enabled"
    started,          \* DailySummaryEventHandler._scheduler_started
    nSched,           \* number of SummaryScheduler instances constructed
    is_running,       \* SummaryScheduler.is_running
    task,             \* SummaryScheduler.task (a task id, or NoTask)
    last_execution_date, \* SummaryScheduler.last_execution_date
    tasks,            \* the _schedule_loop coroutines: id -> frame
    nTasks,           \* number of loop tasks created so far
    awaiting,         \* loop tasks a suspended stop() call is awaiting
    completions,      \* date -> number of callback runs for that date that completed
    nErrors,          \* failed cycles so far
    skipped,          \* dates on which a wake-up skipped the callback
    vkind,            \* which operation is called ("none" while the scheduler is followed)
    data,             \* input of the call: a list of items, a transcript, a text
    user_stats,       \* its user_stats argument: (uid, nickname) in dict order
    result,           \* what the call returned, or that it raised
    vpc,              \* position of the call
    llm               \* the generative-text service: requests taken, last reply

schedVars == <<clock, cfgTime, cfgEnabled, cfgAuto, started, nSched, is_running, task,
               last_execution_date, tasks, nTasks, awaiting, completions, nErrors, skipped>>
valVars == <<vkind, data, user_stats, result, vpc, llm>>
vars == <<clock, cfgTime, cfgEnabled, cfgAuto, started, nSched, is_running, task,
          last_execution_date, tasks, nTasks, awaiting, completions, nErrors, skipped,
          vkind, data, user_stats, result, vpc, llm>>

\* llm_api before any request: parsed is what _parse_llm_json makes of a reply
NoService == [calls |-> 0, success |-> FALSE, parsed |-> <<>>]

\* ------------------------------------------------------------- time strings
\* One ':'-separated field of the configured time: the text of an integer
\* (num) with its value, or text int() rejects.
Num(n) == [num |-> TRUE, val |-> n]
NotNum == [num |-> FALSE, val |-> 0]

TimeStrs == { <<Num(23), Num(0)>>,        \* "23:00"
              <<Num(0), Num(0)>>,         \* "00:00"
              <<Num(25), Num(0)>> }       \* "25:00"

\* hour, minute = map(int, summary_time_str.split(":")), ValueError -> 23, 0
ParseTime(s) ==
    IF Len(s) = 2 /\ s[1].num /\ s[2].num
    THEN [hour |-> s[1].val, minute |-> s[2].val]
    ELSE [hour |-> DefaultHour, minute |-> DefaultMinute]

\* now.replace(hour=, minute=, second=0, microsecond=0) raises ValueError
\* outside these ranges
ReplaceOk(h, m) == h \in 0..23 /\ m \in 0..59

DateOf(t) == t \div Day

TodaySchedule(now, h, m) == DateOf(now) * Day + h * Hour + m * Minute

\* variant: the comparison is strict, so `now` equal to the instant keeps today
NextFireStrict(now, h, m) ==
    IF now > TodaySchedule(now, h, m)
    THEN TodaySchedule(now, h, m) + Day
    ELSE TodaySchedule(now, h, m)

\* if now >= today_schedule: today_schedule += timedelta(days=1)
NextFire(now, h, m) ==
    IF now >= TodaySchedule(now, h, m)
    THEN TodaySchedule(now, h, m) + Day
    ELSE TodaySchedule(now, h, m)

WaitSeconds(now, h, m) == NextFire(now, h, m) - now

\* ------------------------------------------------------------ loop frames
TaskIds == 1..MaxTasks

\* A frame keeps the locals that are live at its await; the others are
\* written as in Idle.
Idle == [pc |-> "none", wakeAt |-> 0, current_date |-> NoDate, cancelReq |-> FALSE]

Done == [Idle EXCEPT !.pc = "done"]

\* The synchronous stretch from the head of `while self.is_running` to the
\* next await: compute the fire instant and sleep, or fail and back off.
LoopTop(f, running, now, timeStr) ==
    IF ~running
    THEN Done
    ELSE LET p == ParseTime(timeStr) IN
         IF ReplaceOk(p.hour, p.minute)
         THEN [Idle EXCEPT !.pc = "sleep",
                           !.wakeAt = now + WaitSeconds(now, p.hour, p.minute)]
         ELSE [Idle EXCEPT !.pc = "backoff", !.wakeAt = now + BackoffSeconds]

\* whether that stretch ends in the except handler
LoopTopFails(running, timeStr) ==
    running /\ ~ReplaceOk(ParseTime(timeStr).hour, ParseTime(timeStr).minute)

Alive(t) == tasks[t].pc \in {"new", "sleep", "callback", "backoff"}

\* ------------------------------------------------------------------- Init
StartTimes == { 22 * Hour, 23 * Hour + 30 * Minute }

InitSched ==
    /\ started = FALSE
    /\ nSched = 0
    /\ is_running = FALSE
    /\ task = NoTask
    /\ last_execution_date = NoDate
    /\ tasks = [t \in TaskIds |-> Idle]
    /\ nTasks = 0
    /\ awaiting = {}
    /\ completions = [d \in {} |-> 0]
    /\ nErrors = 0
    /\ skipped = {}

\* no validator runs while the scheduler is followed
InitVal ==
    /\ vkind = "none"
    /\ data = <<>>
    /\ user_stats = <<>>
    /\ result = [raised |-> FALSE, out |-> <<>>]
    /\ vpc = "idle"
    /\ llm = NoService

Init ==
    /\ clock \in StartTimes
    /\ cfgTime \in TimeStrs
    /\ cfgEnabled \in BOOLEAN
    /\ cfgAuto \in BOOLEAN
    /\ InitSched
    /\ InitVal


\* ------------------------------------------------- SummaryScheduler.start
\* variant: start() without the is_running guard
StartOnUnguarded(run, tk) ==
    IF ~cfgEnabled \/ ~cfgAuto
    THEN /\ is_running' = run
         /\ task' = tk
         /\ UNCHANGED <<tasks, nTasks>>
    ELSE /\ nTasks < MaxTasks
         /\ is_running' = TRUE
         /\ nTasks' = nTasks + 1
         /\ task' = nTasks + 1
         /\ tasks' = [tasks EXCEPT ![nTasks + 1] = [Idle EXCEPT !.pc = "new"]]

\* variant: start() returns only when both flags are off
StartOnEitherFlag(run, tk) ==
    IF run
    THEN /\ is_running' = run
         /\ task' = tk
         /\ UNCHANGED <<tasks, nTasks>>
    ELSE IF ~cfgEnabled /\ ~cfgAuto
    THEN /\ is_running' = run
         /\ task' = tk
         /\ UNCHANGED <<tasks, nTasks>>
    ELSE /\ nTasks < MaxTasks
         /\ is_running' = TRUE
         /\ nTasks' = nTasks + 1
         /\ task' = nTasks + 1
         /\ tasks' = [tasks EXCEPT ![nTasks + 1] = [Idle EXCEPT !.pc = "new"]]

\* start() on a scheduler whose fields are run / tk; it has no await, so it
\* runs as one step.
StartOn(run, tk) ==
    IF run
    THEN /\ is_running' = run
         /\ task' = tk
         /\ UNCHANGED <<tasks, nTasks>>
    ELSE IF ~cfgEnabled \/ ~cfgAuto
    THEN /\ is_running' = run
         /\ task' = tk
         /\ UNCHANGED <<tasks, nTasks>>
    ELSE /\ nTasks < MaxTasks
         /\ is_running' = TRUE
         /\ nTasks' = nTasks + 1
         /\ task' = nTasks + 1
         /\ tasks' = [tasks EXCEPT ![nTasks + 1] = [Idle EXCEPT !.pc = "new"]]

\* DailySummaryEventHandler.execute for one ON_START event
OnStart ==
    /\ IF ~started
       THEN /\ started' = TRUE
            /\ nSched' = nSched + 1
            /\ last_execution_date' = NoDate
            /\ StartOn(FALSE, NoTask)
       ELSE UNCHANGED <<started, nSched, last_execution_date, is_running, task,
                        tasks, nTasks>>
    /\ UNCHANGED <<clock, cfgTime, cfgEnabled, cfgAuto, awaiting, completions, nErrors, skipped, valVars>>

\* a further start() call on the scheduler the handler created
StartCall ==
    /\ nSched > 0
    /\ StartOn(is_running, task)
    /\ UNCHANGED <<clock, cfgTime, cfgEnabled, cfgAuto, started, nSched,
                   last_execution_date, awaiting, completions, nErrors, skipped, valVars>>

\* -------------------------------------------------- SummaryScheduler.stop
\* task.cancel(): a finished task is left alone; a live one gets the request,
\* and its locals are dead from here on (its next step is its exit)
Cancel(f) ==
    IF f.pc \in {"new", "sleep", "callback", "backoff"}
    THEN [Idle EXCEPT !.pc = f.pc, !.cancelReq = TRUE]
    ELSE f

\* stop() up to its `await self.task`
StopCall ==
    /\ nSched > 0
    /\ is_running
    /\ is_running' = FALSE
    /\ IF task # NoTask
       THEN /\ tasks' = [tasks EXCEPT ![task] = Cancel(@)]
            /\ awaiting' = awaiting \cup {task}
       ELSE UNCHANGED <<tasks, awaiting>>
    /\ UNCHANGED <<clock, cfgTime, cfgEnabled, cfgAuto, started, nSched, task,
                   last_execution_date, nTasks, completions, nErrors, skipped, valVars>>

\* variant: stop() returns after cancel() without awaiting the task
StopReturnNoAwait(t) ==
    /\ t \in awaiting
    /\ awaiting' = awaiting \ {t}
    /\ UNCHANGED <<clock, cfgTime, cfgEnabled, cfgAuto, started, nSched, is_running,
                   task, last_execution_date, tasks, nTasks, completions, nErrors, skipped, valVars>>

\* `await self.task` resumes once the loop task has finished
StopReturn(t) ==
    /\ t \in awaiting
    /\ tasks[t].pc = "done"
    /\ awaiting' = awaiting \ {t}
    /\ UNCHANGED <<clock, cfgTime, cfgEnabled, cfgAuto, started, nSched, is_running,
                   task, last_execution_date, tasks, nTasks, completions, nErrors, skipped, valVars>>

\* ------------------------------------------ SummaryScheduler._schedule_loop
TaskFrame == <<clock, cfgTime, cfgEnabled, cfgAuto, started, nSched, is_running, task,
               nTasks, awaiting, valVars>>

\* a step that ends in LoopTop counts a failed cycle when the fire time is rejected
CountLoopTop ==
    IF LoopTopFails(is_running, cfgTime)
    THEN nErrors < MaxErrors /\ nErrors' = nErrors + 1
    ELSE UNCHANGED nErrors

\* first step of the task created by asyncio.create_task
TaskBegin(t) ==
    /\ tasks[t].pc = "new"
    /\ ~tasks[t].cancelReq
    /\ tasks' = [tasks EXCEPT ![t] = LoopTop(@, is_running, clock, cfgTime)]
    /\ CountLoopTop
    /\ UNCHANGED <<TaskFrame, last_execution_date, completions, skipped>>

\* task.cancel() takes effect at the task's next step: CancelledError is
\* thrown at its await (in the callback it propagates to the loop's handler)
TaskCancelled(t) ==
    /\ Alive(t)
    /\ tasks[t].cancelReq
    /\ tasks' = [tasks EXCEPT ![t] = Done]
    /\ UNCHANGED <<TaskFrame, last_execution_date, completions, nErrors, skipped>>

\* variant: no comparison with last_execution_date
WakeStepNoGuard(f) ==
    IF ~is_running
    THEN Done
    ELSE [Idle EXCEPT !.pc = "callback", !.current_date = DateOf(clock)]

\* resume after `await asyncio.sleep(wait_seconds)`
WakeStep(f) ==
    IF ~is_running
    THEN Done
    ELSE IF last_execution_date = DateOf(clock)
    THEN LoopTop(f, is_running, clock, cfgTime)
    ELSE [Idle EXCEPT !.pc = "callback", !.current_date = DateOf(clock)]

Wake(t) ==
    /\ tasks[t].pc = "sleep"
    /\ ~tasks[t].cancelReq
    /\ \E e \in EarlyWake : clock >= tasks[t].wakeAt - e
    /\ tasks' = [tasks EXCEPT ![t] = WakeStep(@)]
    /\ IF is_running /\ last_execution_date = DateOf(clock)
       THEN CountLoopTop /\ skipped' = skipped \cup {DateOf(clock)}
       ELSE UNCHANGED <<nErrors, skipped>>
    /\ UNCHANGED <<TaskFrame, last_execution_date, completions>>

\* variant: the date is read again when the callback has returned
RecordedDateNow(f) == DateOf(clock)

\* self.last_execution_date = current_date
RecordedDate(f) == f.current_date

\* `await summary_generator()` returns
CallbackReturn(t) ==
    /\ tasks[t].pc = "callback"
    /\ ~tasks[t].cancelReq
    /\ last_execution_date' = RecordedDate(tasks[t])
    /\ completions' = [d \in DOMAIN completions \cup {tasks[t].current_date} |->
                          IF d = tasks[t].current_date
                          THEN (IF d \in DOMAIN completions THEN completions[d] ELSE 0) + 1
                          ELSE completions[d]]
    /\ tasks' = [tasks EXCEPT ![t] = LoopTop(@, is_running, clock, cfgTime)]
    /\ CountLoopTop
    /\ UNCHANGED <<TaskFrame, skipped>>

\* variant: the handler goes straight back to the head of the loop
OnErrorNoWait(f) == LoopTop(f, is_running, clock, cfgTime)

\* except Exception: log, then `await asyncio.sleep(60)`
OnError(f) == [Idle EXCEPT !.pc = "backoff", !.wakeAt = clock + BackoffSeconds]

\* `await summary_generator()` raises an Exception
CallbackRaise(t) ==
    /\ tasks[t].pc = "callback"
    /\ ~tasks[t].cancelReq
    /\ nErrors < MaxErrors
    /\ nErrors' = nErrors + 1
    /\ tasks' = [tasks EXCEPT ![t] = OnError(@)]
    /\ UNCHANGED <<TaskFrame, last_execution_date, completions, skipped>>

\* resume after `await asyncio.sleep(60)` in the except handler
BackoffWake(t) ==
    /\ tasks[t].pc = "backoff"
    /\ ~tasks[t].cancelReq
    /\ \E e \in EarlyWake : clock >= tasks[t].wakeAt - e
    /\ tasks' = [tasks EXCEPT ![t] = LoopTop(@, is_running, clock, cfgTime)]
    /\ CountLoopTop
    /\ UNCHANGED <<TaskFrame, last_execution_date, completions, skipped>>

\* ------------------------------------------------------------ environment
NextMidnight == (DateOf(clock) + 1) * Day

Deadlines == { tasks[t].wakeAt :
                 t \in { u \in TaskIds : tasks[u].pc \in {"sleep", "backoff"}
                                          /\ ~tasks[u].cancelReq } }

\* the instants at which something can change: around a deadline, and midnight
Instants == { d - e : d \in Deadlines, e \in EarlyWake } \cup {NextMidnight}

Tick ==
    /\ \E c \in Instants :
          /\ c > clock
          /\ c <= MaxDay * Day
          /\ clock' = c
    /\ UNCHANGED <<cfgTime, cfgEnabled, cfgAuto, started, nSched, is_running, task,
                   last_execution_date, tasks, nTasks, awaiting, completions, nErrors, skipped, valVars>>

SetTime ==
    /\ \E s \in TimeStrs : s # cfgTime /\ cfgTime' = s
    /\ UNCHANGED <<clock, cfgEnabled, cfgAuto, started, nSched, is_running, task,
                   last_execution_date, tasks, nTasks, awaiting, completions, nErrors, skipped, valVars>>

SetEnabled ==
    /\ cfgEnabled' = ~cfgEnabled
    /\ UNCHANGED <<clock, cfgTime, cfgAuto, started, nSched, is_running, task,
                   last_execution_date, tasks, nTasks, awaiting, completions, nErrors, skipped, valVars>>

SetAuto ==
    /\ cfgAuto' = ~cfgAuto
    /\ UNCHANGED <<clock, cfgTime, cfgEnabled, started, nSched, is_running, task,
                   last_execution_date, tasks, nTasks, awaiting, completions, nErrors, skipped, valVars>>

LoopNoCancel(t) ==
    \/ TaskBegin(t)
    \/ Wake(t)
    \/ CallbackReturn(t)
    \/ CallbackRaise(t)
    \/ BackoffWake(t)

LoopNext ==
    \E t \in TaskIds : LoopNoCancel(t) \/ TaskCancelled(t)

EnvNext == Tick \/ SetTime \/ SetEnabled \/ SetAuto

StopNext == StopCall \/ (\E t \in TaskIds : StopReturn(t))

\* the scheduler with all of its callers: ON_START events, start(), stop()
Next ==
    \/ OnStart
    \/ StartCall
    \/ StopNext
    \/ LoopNext
    \/ EnvNext

Spec == Init /\ [][Next]_vars

\* ON_START events and start() calls only: nothing calls stop()
NextStart ==
    \/ OnStart
    \/ StartCall
    \/ (\E t \in TaskIds : LoopNoCancel(t))
    \/ EnvNext

SpecStart == Init /\ [][NextStart]_vars

\* the plugin as it runs: start() is reached through the ON_START handler only
NextHandler ==
    \/ OnStart
    \/ StopNext
    \/ LoopNext
    \/ EnvNext

SpecHandler == Init /\ [][NextHandler]_vars

\* the loop alone under a fixed configuration, started at any time of day
FireNows == { 0, 1, 12 * Hour + 30 * Minute, 22 * Hour, 23 * Hour - 1, 23 * Hour,
              23 * Hour + 1, 23 * Hour + 30 * Minute, Day - 1 }

FireTimes == TimeStrs \cup { <<Num(12), Num(30)>>,   \* "12:30"
                             <<Num(23), Num(59)>>,   \* "23:59"
                             <<Num(23)>>,            \* "23"
                             <<NotNum, Num(0)>>,     \* "ab:00"
                             <<Num(12), Num(60)>> }  \* "12:60"

InitFire ==
    /\ clock \in FireNows
    /\ cfgTime \in FireTimes
    /\ cfgEnabled = TRUE
    /\ cfgAuto = TRUE
    /\ InitSched
    /\ InitVal

NextFireOnly ==
    \/ OnStart
    \/ (\E t \in TaskIds : LoopNoCancel(t))
    \/ Tick

SpecFire == InitFire /\ [][NextFireOnly]_vars

\* ============================================ ChatAnalysisUtils: the validators
\* ------------------------------------------------------------ JSON values
\* A value of the parsed JSON: t is its Python type, s the text of a str (one
\* character per element), n the number (a float in tenths), l the elements
\* of a list.
VStr(s) == [t |-> "str", s |-> s, n |-> 0, l |-> <<>>]
VInt(n) == [t |-> "int", s |-> <<>>, n |-> n, l |-> <<>>]
VFloat(tenths) == [t |-> "float", s |-> <<>>, n |-> tenths, l |-> <<>>]
VBool(b) == [t |-> "bool", s |-> <<>>, n |-> IF b THEN 1 ELSE 0, l |-> <<>>]
VInf == [t |-> "inf", s |-> <<>>, n |-> 0, l |-> <<>>]
VNaN == [t |-> "nan", s |-> <<>>, n |-> 0, l |-> <<>>]
VNull == [t |-> "null", s |-> <<>>, n |-> 0, l |-> <<>>]
VList(l) == [t |-> "list", s |-> <<>>, n |-> 0, l |-> l]
VAbsent == [t |-> "absent", s |-> <<>>, n |-> 0, l |-> <<>>]   \* the key is not in the dict

Keys == { "name", "rank", "comment", "score", "topic", "contributors", "detail",
          "title", "mbti", "reason", "content", "sender" }

\* a dict with the keys of rec, and an element of the list that is no dict
Item(rec) == [dict |-> TRUE,
              f |-> [k \in Keys |-> IF k \in DOMAIN rec THEN rec[k] ELSE VAbsent]]
NotDict == [dict |-> FALSE, f |-> [k \in Keys |-> VAbsent]]

Has(item, k) == item.f[k].t # "absent"          \* key in item

Min(a, b) == IF a < b THEN a ELSE b
Max(a, b) == IF a > b THEN a ELSE b

\* ---------------------------------------------------------------- strings
DigitChars == <<"0", "1", "2", "3", "4", "5", "6", "7", "8", "9">>
LowerChars == <<"a", "b", "c", "d", "e", "f", "g", "h", "i", "j", "k", "l", "m",
                "n", "o", "p", "q", "r", "s", "t", "u", "v", "w", "x", "y", "z">>
UpperChars == <<"A", "B", "C", "D", "E", "F", "G", "H", "I", "J", "K", "L", "M",
                "N", "O", "P", "Q", "R", "S", "T", "U", "V", "W", "X", "Y", "Z">>
Whitespace == {" ", "\t", "\n"}

IsDigit(c) == \E i \in 1..10 : DigitChars[i] = c
DigitVal(c) == (CHOOSE i \in 1..10 : DigitChars[i] = c) - 1

UpperChar(c) ==
    IF \E i \in 1..26 : LowerChars[i] = c
    THEN UpperChars[CHOOSE i \in 1..26 : LowerChars[i] = c]
    ELSE c

Upper(s) == [i \in 1..Len(s) |-> UpperChar(s[i])]                  \* s.upper()

RECURSIVE LStrip(_)
LStrip(s) == IF s # <<>> /\ s[1] \in Whitespace THEN LStrip(Tail(s)) ELSE s

RECURSIVE RStrip(_)
RStrip(s) ==
    IF s # <<>> /\ s[Len(s)] \in Whitespace THEN RStrip(SubSeq(s, 1, Len(s) - 1)) ELSE s

Strip(s) == RStrip(LStrip(s))                                       \* s.strip()

Take(s, n) == SubSeq(s, 1, Min(n, Len(s)))                          \* s[:n]

RECURSIVE NatToStr(_)
NatToStr(n) ==
    IF n < 10 THEN <<DigitChars[n + 1]>>
    ELSE NatToStr(n \div 10) \o <<DigitChars[(n % 10) + 1]>>

Abs(n) == IF n < 0 THEN -n ELSE n
SignStr(n) == IF n < 0 THEN <<"-">> ELSE <<>>

\* str(v)
Str(v) ==
    CASE v.t = "str" -> v.s
      [] v.t = "int" -> SignStr(v.n) \o NatToStr(Abs(v.n))
      [] v.t = "float" -> SignStr(v.n) \o NatToStr(Abs(v.n) \div 10) \o <<".">>
                              \o <<DigitChars[(Abs(v.n) % 10) + 1]>>
      [] v.t = "bool" -> IF v.n = 1 THEN <<"T", "r", "u", "e">>
                         ELSE <<"F", "a", "l", "s", "e">>
      [] v.t = "inf" -> <<"i", "n", "f">>
      [] v.t = "nan" -> <<"n", "a", "n">>
      [] v.t = "null" -> <<"N", "o", "n", "e">>
      [] OTHER -> <<"[", "]">>

\* bool(v)
Truthy(v) ==
    CASE v.t = "str" -> v.s # <<>>
      [] v.t \in {"int", "float", "bool"} -> v.n # 0
      [] v.t \in {"inf", "nan"} -> TRUE
      [] v.t = "list" -> v.l # <<>>
      [] OTHER -> FALSE

RECURSIVE DigitsVal(_)
DigitsVal(s) ==
    IF s = <<>> THEN 0
    ELSE DigitsVal(SubSeq(s, 1, Len(s) - 1)) * 10 + DigitVal(s[Len(s)])

IntOk(n) == [exc |-> "none", n |-> n]
IntRaise(e) == [exc |-> e, n |-> 0]

\* int(s) for a str: optional sign and decimal digits, blanks around them
IntOfStr(s) ==
    LET u == Strip(s)
        neg == u # <<>> /\ u[1] = "-"
        d == IF u # <<>> /\ u[1] \in {"-", "+"} THEN Tail(u) ELSE u
    IN IF d # <<>> /\ \A i \in 1..Len(d) : IsDigit(d[i])
       THEN IntOk(IF neg THEN -DigitsVal(d) ELSE DigitsVal(d))
       ELSE IntRaise("ValueError")

\* int(v): a float is cut towards zero
PyInt(v) ==
    CASE v.t \in {"int", "bool"} -> IntOk(v.n)
      [] v.t = "float" -> IntOk(IF v.n < 0 THEN -(Abs(v.n) \div 10) ELSE v.n \div 10)
      [] v.t = "str" -> IntOfStr(v.s)
      [] v.t = "inf" -> IntRaise("OverflowError")
      [] v.t = "nan" -> IntRaise("ValueError")
      [] OTHER -> IntRaise("TypeError")

\* -------------------------------------------------------------- user_stats
\* the lookup loop over user_stats.items(): the first uid whose nickname is
\* `name`, or "" (also when user_stats is empty or None)
RECURSIVE FindUserId(_, _)
FindUserId(us, name) ==
    IF us = <<>> THEN ""
    ELSE IF us[1].nickname = name THEN us[1].uid
    ELSE FindUserId(Tail(us), name)

\* what one pass of a validator's loop does with an item
Skip == [kind |-> "skip"]
Raise == [kind |-> "raise"]
Keep(e) == [kind |-> "keep", e |-> e]

\* ------------------------------------------------ _validate_depression_index
NameMax == 50        \* str(item["name"])[:50]
CommentMax == 60     \* str(item["comment"])[:60]
ScoreMin == 0        \* max(0, min(150, score))
ScoreMax == 150

ValidRanks == { <<"S">>, <<"A">>, <<"B">>, <<"C">>, <<"D">> }

\* rank_default_scores.get(rank, 75)
RankDefaultScore(rank) ==
    CASE rank = <<"S">> -> 135
      [] rank = <<"A">> -> 105
      [] rank = <<"B">> -> 75
      [] rank = <<"C">> -> 45
      [] rank = <<"D">> -> 15
      [] OTHER -> 75

\* variant: a rank is accepted by its first letter
RankAcceptedByFirst(rank) == rank # <<>> /\ <<rank[1]>> \in ValidRanks

\* rank in ["S", "A", "B", "C", "D"]
RankAccepted(rank) == rank \in ValidRanks

\* variant: the score is not clamped
RankScoreNoClamp(item, rank) ==
    LET r == PyInt(IF Has(item, "score") THEN item.f["score"] ELSE VInt(0))
    IN CASE r.exc = "none" -> [raised |-> FALSE, score |-> r.n]
         [] r.exc \in {"ValueError", "TypeError"} ->
                [raised |-> FALSE, score |-> RankDefaultScore(rank)]
         [] OTHER -> [raised |-> TRUE, score |-> 0]

\* the try block: int(item.get("score", 0)) clamped, the rank's default on
\* ValueError / TypeError; any other exception leaves the validator
RankScore(item, rank) ==
    LET r == PyInt(IF Has(item, "score") THEN item.f["score"] ELSE VInt(0))
    IN CASE r.exc = "none" -> [raised |-> FALSE, score |-> Max(ScoreMin, Min(ScoreMax, r.n))]
         [] r.exc \in {"ValueError", "TypeError"} ->
                [raised |-> FALSE, score |-> RankDefaultScore(rank)]
         [] OTHER -> [raised |-> TRUE, score |-> 0]

\* one pass of the loop for the item at position i; src records that position
RankEntry(item, i, us) ==
    IF ~item.dict THEN Skip
    ELSE IF ~(Has(item, "name") /\ Has(item, "rank") /\ Has(item, "comment")) THEN Skip
    ELSE LET name == Take(Str(item.f["name"]), NameMax)
             rank == Strip(Upper(Str(item.f["rank"])))
             comment == Take(Str(item.f["comment"]), CommentMax)
             sc == RankScore(item, rank)
         IN IF ~RankAccepted(rank) THEN Skip
            ELSE IF name = <<>> \/ rank = <<>> \/ comment = <<>> THEN Skip
            ELSE IF sc.raised THEN Raise
            ELSE Keep([name |-> name, rank |-> rank, score |-> sc.score,
                       comment |-> comment, user_id |-> FindUserId(us, name),
                       src |-> i])

\* variant: an entry goes in front of the entries of equal score
RECURSIVE InsertDescFront(_, _)
InsertDescFront(s, e) ==
    IF s = <<>> THEN <<e>>
    ELSE IF s[1].score > e.score THEN <<s[1]>> \o InsertDescFront(Tail(s), e)
    ELSE <<e>> \o s

\* validated.sort(key=score, reverse=True) is stable: an entry goes behind
\* the entries whose score is not lower
RECURSIVE InsertDesc(_, _)
InsertDesc(s, e) ==
    IF s = <<>> THEN <<e>>
    ELSE IF s[1].score >= e.score THEN <<s[1]>> \o InsertDesc(Tail(s), e)
    ELSE <<e>> \o s

RECURSIVE SortDesc(_, _)
SortDesc(s, acc) ==
    IF s = <<>> THEN acc ELSE SortDesc(Tail(s), InsertDesc(acc, s[1]))

\* the for loop of a validator over the outcomes of its passes, in input
\* order: kept entries are appended, an exception ends the call
RECURSIVE Collect(_, _)
Collect(passes, acc) ==
    IF passes = <<>> THEN [raised |-> FALSE, out |-> acc]
    ELSE IF passes[1].kind = "raise" THEN [raised |-> TRUE, out |-> <<>>]
    ELSE Collect(Tail(passes),
                 IF passes[1].kind = "keep" THEN Append(acc, passes[1].e) ELSE acc)

validate_depression_index(d, us) ==
    LET r == Collect([i \in 1..Len(d) |-> RankEntry(d[i], i, us)], <<>>)
    IN IF r.raised THEN r ELSE [raised |-> FALSE, out |-> SortDesc(r.out, <<>>)]

\* --------------------------------------------------------- _validate_topics
TopicMax == 30           \* str(item["topic"])[:30]
DetailMax == 200         \* str(item["detail"])[:200]
ContributorMax == 20     \* str(c).strip()[:20]
ContributorsKept == 5    \* [...][:5]
TopicsKept == 5          \* validated[:5]

\* [str(c).strip()[:20] for c in contributors if c and str(c).strip()]
RECURSIVE CleanContributors(_)
CleanContributors(l) ==
    IF l = <<>> THEN <<>>
    ELSE (IF Truthy(l[1]) /\ Strip(Str(l[1])) # <<>>
          THEN <<Take(Strip(Str(l[1])), ContributorMax)>>
          ELSE <<>>) \o CleanContributors(Tail(l))

TopicEntry(item, i) ==
    IF ~item.dict THEN Skip
    ELSE IF ~(Has(item, "topic") /\ Has(item, "contributors") /\ Has(item, "detail")) THEN Skip
    ELSE LET topic == Take(Str(item.f["topic"]), TopicMax)
             detail == Take(Str(item.f["detail"]), DetailMax)
             listed == IF item.f["contributors"].t = "list"
                       THEN item.f["contributors"].l ELSE <<>>
             contributors == Take(CleanContributors(listed), ContributorsKept)
         IN IF topic = <<>> \/ detail = <<>> \/ contributors = <<>> THEN Skip
            ELSE Keep([topic |-> topic, contributors |-> contributors,
                       detail |-> detail, src |-> i])

validate_topics(d) ==
    LET r == Collect([i \in 1..Len(d) |-> TopicEntry(d[i], i)], <<>>)
    IN [raised |-> r.raised, out |-> Take(r.out, TopicsKept)]

\* --------------------------------------------------------- _validate_titles
MaxTitleLength == 10     \* AnalysisConfig.MAX_TITLE_LENGTH
MaxReasonLength == 30    \* AnalysisConfig.MAX_REASON_LENGTH

valid_mbti_types ==
    { <<a, b, c, d>> : a \in {"I", "E"}, b \in {"N", "S"}, c \in {"T", "F"}, d \in {"J", "P"} }

DefaultMbti == <<"E", "N", "F", "P">>

\* variant: an item whose mbti is not in the whitelist is skipped
TitleEntryDropInvalid(item, i, us) ==
    IF ~item.dict THEN Skip
    ELSE IF ~(Has(item, "name") /\ Has(item, "title") /\ Has(item, "mbti")
              /\ Has(item, "reason")) THEN Skip
    ELSE LET name == Take(Str(item.f["name"]), NameMax)
             title == Take(Str(item.f["title"]), MaxTitleLength)
             mbti == Strip(Upper(Str(item.f["mbti"])))
             reason == Take(Str(item.f["reason"]), MaxReasonLength)
         IN IF name = <<>> \/ title = <<>> \/ reason = <<>> THEN Skip
            ELSE IF mbti \notin valid_mbti_types THEN Skip
            ELSE Keep([name |-> name, title |-> title, mbti |-> mbti,
                       reason |-> reason, user_id |-> FindUserId(us, name), src |-> i])

\* one pass of the loop for the item at position i
TitleEntry(item, i, us) ==
    IF ~item.dict THEN Skip
    ELSE IF ~(Has(item, "name") /\ Has(item, "title") /\ Has(item, "mbti")
              /\ Has(item, "reason")) THEN Skip
    ELSE LET name == Take(Str(item.f["name"]), NameMax)
             title == Take(Str(item.f["title"]), MaxTitleLength)
             mbti == Strip(Upper(Str(item.f["mbti"])))
             reason == Take(Str(item.f["reason"]), MaxReasonLength)
         IN IF name = <<>> \/ title = <<>> \/ reason = <<>> THEN Skip
            ELSE Keep([name |-> name, title |-> title,
                       mbti |-> IF mbti \in valid_mbti_types THEN mbti ELSE DefaultMbti,
                       reason |-> reason, user_id |-> FindUserId(us, name), src |-> i])

validate_titles(d, us) ==
    Collect([i \in 1..Len(d) |-> TitleEntry(d[i], i, us)], <<>>)

\* --------------------------------------------------------- _validate_quotes
ContentMax == 200        \* str(item["content"])[:200]
SenderMax == 50          \* str(item["sender"])[:50]

Drop(s, n) == SubSeq(s, n + 1, Len(s))

\* lengths of the longest prefixes matching [^<\s]*, \d* and \s*
RECURSIVE NameRun(_)
NameRun(s) ==
    IF s # <<>> /\ s[1] # "<" /\ s[1] \notin Whitespace THEN 1 + NameRun(Tail(s)) ELSE 0

RECURSIVE DigitRun(_)
DigitRun(s) == IF s # <<>> /\ IsDigit(s[1]) THEN 1 + DigitRun(Tail(s)) ELSE 0

RECURSIVE SpaceRun(_)
SpaceRun(s) == IF s # <<>> /\ s[1] \in Whitespace THEN 1 + SpaceRun(Tail(s)) ELSE 0

\* length of the match of @[^<\s]+<\d+>\s* at the head of s, 0 when there is none
MentionLen(s) ==
    IF s = <<>> \/ s[1] # "@" THEN 0
    ELSE LET a == NameRun(Tail(s))
             r1 == Drop(s, 1 + a)
         IN IF a = 0 \/ r1 = <<>> \/ r1[1] # "<" THEN 0
            ELSE LET b == DigitRun(Tail(r1))
                     r2 == Drop(r1, 1 + b)
                 IN IF b = 0 \/ r2 = <<>> \/ r2[1] # ">" THEN 0
                    ELSE a + b + 3 + SpaceRun(Tail(r2))

\* re.sub(r'@[^<\s]+<\d+>\s*', '', content)
RECURSIVE RemoveMentions(_)
RemoveMentions(s) ==
    IF s = <<>> THEN <<>>
    ELSE IF MentionLen(s) > 0 THEN RemoveMentions(Drop(s, MentionLen(s)))
    ELSE <<s[1]>> \o RemoveMentions(Tail(s))

QuoteEntry(item, i) ==
    IF ~item.dict THEN Skip
    ELSE IF ~(Has(item, "content") /\ Has(item, "sender") /\ Has(item, "reason")) THEN Skip
    ELSE LET content == Strip(RemoveMentions(Take(Str(item.f["content"]), ContentMax)))
             sender == Take(Str(item.f["sender"]), SenderMax)
             reason == Take(Str(item.f["reason"]), MaxReasonLength)
         IN IF content = <<>> \/ sender = <<>> \/ reason = <<>> THEN Skip
            ELSE Keep([content |-> content, sender |-> sender, reason |-> reason,
                       src |-> i])

validate_quotes(d) ==
    Collect([i \in 1..Len(d) |-> QuoteEntry(d[i], i)], <<>>)

\* ------------------------------------------------------- validator inputs
A == VStr(<<"a">>)
B == VStr(<<"b">>)

RankItems ==
    { Item([name |-> A, rank |-> VStr(<<"S">>), comment |-> A]),
      Item([name |-> B, rank |-> VStr(<<"A">>), comment |-> A, score |-> VInt(100)]),
      Item([name |-> A, rank |-> VStr(<<" ", "a", " ">>), comment |-> A, score |-> VInt(100)]),
      Item([name |-> B, rank |-> VStr(<<"B">>), comment |-> A, score |-> VInt(200)]),
      Item([name |-> A, rank |-> VStr(<<"C">>), comment |-> A, score |-> VInt(-5)]),
      Item([name |-> B, rank |-> VStr(<<"D">>), comment |-> A,
            score |-> VStr(<<"a", "b", "c">>)]),
      Item([name |-> A, rank |-> VStr(<<"S">>), comment |-> A, score |-> VNull]),
      Item([name |-> B, rank |-> VStr(<<"s">>), comment |-> A, score |-> VStr(<<"9", "0">>)]),
      Item([name |-> A, rank |-> VStr(<<"X">>), comment |-> A, score |-> VInt(100)]),
      Item([name |-> B, rank |-> VStr(<<"S", "S">>), comment |-> A, score |-> VInt(50)]),
      Item([name |-> A, rank |-> VStr(<<"A">>), comment |-> A, score |-> VFloat(999)]),
      Item([name |-> B, rank |-> VStr(<<"C">>), comment |-> A, score |-> VInf]),
      Item([name |-> A, rank |-> VStr(<<"S">>), score |-> VInt(10)]),
      Item([name |-> VStr(<<>>), rank |-> VStr(<<"S">>), comment |-> A, score |-> VInt(10)]),
      Item([name |-> VInt(7), rank |-> VStr(<<"D">>), comment |-> A, score |-> VBool(TRUE)]),
      Item([name |-> A, rank |-> VStr(<<"B">>), comment |-> A, score |-> VNaN]),
      Item([name |-> B, rank |-> VStr(<<"A">>), comment |-> A, score |-> VList(<<>>)]),
      Item([name |-> A, rank |-> VStr(<<"C">>), comment |-> A,
            score |-> VStr(<<" ", "7", " ">>)]),
      Item([name |-> B, rank |-> VStr(<<"D">>), comment |-> A, score |-> VFloat(-5)]),
      NotDict }

\* a title one character over the cap, a detail one over, and a contributor
\* whose twentieth character is a space between two words
LongTopic == [i \in 1..(TopicMax + 1) |-> "a"]
LongDetail == [i \in 1..(DetailMax + 1) |-> "a"]
LongName == [i \in 1..(ContributorMax + 1) |->
                IF i = ContributorMax THEN " " ELSE "a"]

TopicItems ==
    { Item([topic |-> A, detail |-> A,
            contributors |-> VList(<<A, VStr(<<" ", "b">>), VStr(<<" ">>), VNull>>)]),
      Item([topic |-> B, detail |-> A, contributors |-> VList(<<B>>)]),
      Item([topic |-> A, detail |-> A, contributors |-> A]),
      Item([topic |-> VStr(LongTopic), detail |-> VStr(LongDetail),
            contributors |-> VList(<<A, B, VStr(LongName), A, B, A>>)]),
      Item([topic |-> B, detail |-> B, contributors |-> VList(<<VStr(<<" ">>), VNull>>)]),
      NotDict }

TitleItems ==
    { Item([name |-> A, title |-> A, reason |-> A, mbti |-> VStr(<<"i", "n", "t", "j">>)]),
      Item([name |-> B, title |-> A, reason |-> A, mbti |-> VStr(<<"x">>)]),
      Item([name |-> B, title |-> B, reason |-> A,
            mbti |-> VStr(<<"x", "y", "z", "1">>)]),
      Item([name |-> A, title |-> B, reason |-> B, mbti |-> VNull]),
      Item([name |-> A, title |-> A, reason |-> A]),
      Item([name |-> A, title |-> VStr(<<>>), reason |-> A, mbti |-> VStr(<<"x">>)]),
      NotDict }

QuoteItems ==
    { Item([content |-> VStr(<<"@", "n", "<", "1", ">", " ", "q">>), sender |-> A,
            reason |-> A]),
      Item([content |-> B, sender |-> B, reason |-> A]),
      Item([content |-> VStr(<<"@", "n", "<", "1", ">">>), sender |-> A, reason |-> A]),
      Item([content |-> A, sender |-> A]),
      NotDict }

SeqsUpTo(S, n) == UNION { [1..k -> S] : k \in 0..n }

UserStatsArgs ==
    { <<>>,
      <<[uid |-> "u2", nickname |-> <<"a">>], [uid |-> "u1", nickname |-> <<"a">>],
        [uid |-> "u3", nickname |-> <<"7">>]>> }

\* a validator is about to be called on a list of items
InitValidate ==
    /\ clock = 0
    /\ cfgTime = <<Num(DefaultHour), Num(DefaultMinute)>>
    /\ cfgEnabled = TRUE
    /\ cfgAuto = TRUE
    /\ InitSched
    /\ \/ vkind = "rank" /\ data \in SeqsUpTo(RankItems, MaxLen)
                         /\ user_stats \in UserStatsArgs
       \/ vkind = "topics" /\ data \in SeqsUpTo(TopicItems, MaxTopicLen)
                           /\ user_stats = <<>>
       \/ vkind = "titles" /\ data \in SeqsUpTo(TitleItems, MaxLen)
                           /\ user_stats \in UserStatsArgs
       \/ vkind = "quotes" /\ data \in SeqsUpTo(QuoteItems, MaxLen)
                           /\ user_stats = <<>>
    /\ result = [raised |-> FALSE, out |-> <<>>]
    /\ vpc = "ready"
    /\ llm = NoService

ValidateDepressionIndex ==
    /\ vkind = "rank"
    /\ vpc = "ready"
    /\ result' = validate_depression_index(data, user_stats)
    /\ vpc' = "done"
    /\ UNCHANGED <<schedVars, vkind, data, user_stats, llm>>

ValidateTopics ==
    /\ vkind = "topics"
    /\ vpc = "ready"
    /\ result' = validate_topics(data)
    /\ vpc' = "done"
    /\ UNCHANGED <<schedVars, vkind, data, user_stats, llm>>

ValidateTitles ==
    /\ vkind = "titles"
    /\ vpc = "ready"
    /\ result' = validate_titles(data, user_stats)
    /\ vpc' = "done"
    /\ UNCHANGED <<schedVars, vkind, data, user_stats, llm>>

ValidateQuotes ==
    /\ vkind = "quotes"
    /\ vpc = "ready"
    /\ result' = validate_quotes(data)
    /\ vpc' = "done"
    /\ UNCHANGED <<schedVars, vkind, data, user_stats, llm>>

NextValidate ==
    \/ ValidateDepressionIndex
    \/ ValidateTopics
    \/ ValidateTitles
    \/ ValidateQuotes

SpecValidate == InitValidate /\ [][NextValidate]_vars

\* the call of the rank-index validator has returned
RankReturned == vkind = "rank" /\ vpc = "done" /\ ~result.raised

\* ================================================ ChatAnalysisUtils: statistics
\* A text is a sequence of Unicode codepoints.
\* ----------------------------------------------------------- EMOJI_PATTERN
EmoticonsLo == 128512        \* U+1F600
EmoticonsHi == 128591        \* U+1F64F
PictographsLo == 127744      \* U+1F300
PictographsHi == 128511      \* U+1F5FF
TransportLo == 128640        \* U+1F680
TransportHi == 128767        \* U+1F6FF
FlagsLo == 127462            \* U+1F1E0
FlagsHi == 127487            \* U+1F1FF
DingbatsLo == 9986           \* U+2702
DingbatsHi == 10160          \* U+27B0
EnclosedLo == 9410           \* U+24C2
EnclosedHi == 127569         \* U+1F251
SupplementalLo == 129280     \* U+1F900
SupplementalHi == 129535     \* U+1F9FF

\* the character class of EMOJI_PATTERN
InEmojiClass(c) ==
    \/ c \in EmoticonsLo..EmoticonsHi
    \/ c \in PictographsLo..PictographsHi
    \/ c \in TransportLo..TransportHi
    \/ c \in FlagsLo..FlagsHi
    \/ c \in DingbatsLo..DingbatsHi
    \/ c \in EnclosedLo..EnclosedHi
    \/ c \in SupplementalLo..SupplementalHi

\* len(EMOJI_PATTERN.findall(text)): the pattern is [class]+, so a match is a
\* maximal run of codepoints of the class
count_emojis(text) ==
    Cardinality({ i \in 1..Len(text) :
                     /\ InEmojiClass(text[i])
                     /\ (i = 1 \/ ~InEmojiClass(text[i - 1])) })

\* --------------------------------------------------------------- messages
LocalOffset == 28800         \* offset of the local zone from UTC, seconds

\* variant: the hours are counted on from the epoch
HourOfNoWrap(ts) == (ts + LocalOffset) \div Hour

\* datetime.fromtimestamp(timestamp).hour
HourOf(ts) == ((ts + LocalOffset) \div Hour) % 24

\* a message: its user_id and user_nickname are JSON values (VAbsent: no such
\* key), its processed_plain_text a text or None, its time a number or absent
Msg(uid, nick, hasText, text, hasTime, ts) ==
    [user_id |-> uid, user_nickname |-> nick,
     text |-> [some |-> hasText, cps |-> text],
     time |-> [some |-> hasTime, ts |-> ts]]

TextOf(msg) == IF msg.text.some THEN msg.text.cps ELSE <<>>     \* ... or ""
TimeOf(msg) == IF msg.time.some THEN msg.time.ts ELSE 0         \* msg.get("time", 0)
UserIdOf(msg) ==                                                \* str(msg.get("user_id", ""))
    IF msg.user_id.t = "absent" THEN <<>> ELSE Str(msg.user_id)

UnknownUser == <<"?">>       \* the default nickname

NicknameOf(msg) ==
    IF msg.user_nickname.t = "absent" THEN UnknownUser ELSE Str(msg.user_nickname)

\* hours[hour] += 1 on a Counter
Bump(hours, h) ==
    [x \in DOMAIN hours \cup {h} |->
        (IF x \in DOMAIN hours THEN hours[x] ELSE 0) + (IF x = h THEN 1 ELSE 0)]

NoHours == [x \in {} |-> 0]  \* Counter()

\* ------------------------------------------------------ analyze_user_stats
IndexOfUser(stats, uid) ==
    IF \E k \in 1..Len(stats) : stats[k].user_id = uid
    THEN CHOOSE k \in 1..Len(stats) : stats[k].user_id = uid
    ELSE 0

NewUser(uid, msg) ==
    [user_id |-> uid, nickname |-> NicknameOf(msg), message_count |-> 0,
     char_count |-> 0, emoji_count |-> 0, hours |-> NoHours]

Counted(st, msg) ==
    [st EXCEPT !.message_count = @ + 1,
               !.char_count = @ + Len(TextOf(msg)),
               !.emoji_count = @ + count_emojis(TextOf(msg)),
               !.hours = Bump(@, HourOf(TimeOf(msg)))]

\* variant: a message without user_id is counted under the user ""
StatsStepNoSkip(stats, msg) ==
    LET uid == UserIdOf(msg)
        k == IndexOfUser(stats, uid)
    IN IF k = 0 THEN Append(stats, Counted(NewUser(uid, msg), msg))
       ELSE [stats EXCEPT ![k] = Counted(@, msg)]

\* one pass of the loop; user_stats is kept in dict order
StatsStep(stats, msg) ==
    LET uid == UserIdOf(msg)
        k == IndexOfUser(stats, uid)
    IN IF uid = <<>> THEN stats
       ELSE IF k = 0 THEN Append(stats, Counted(NewUser(uid, msg), msg))
       ELSE [stats EXCEPT ![k] = Counted(@, msg)]

RECURSIVE analyze_user_stats(_, _)
analyze_user_stats(messages, stats) ==
    IF messages = <<>> THEN stats
    ELSE analyze_user_stats(Tail(messages), StatsStep(stats, messages[1]))

\* ----------------------------------------------- analyze_single_user_stats
NoStats == [message_count |-> 0, char_count |-> 0, emoji_count |-> 0, hours |-> NoHours]

RECURSIVE SingleLoop(_, _)
SingleLoop(messages, st) ==
    IF messages = <<>> THEN st
    ELSE SingleLoop(Tail(messages), Counted(st, messages[1]))

HoursPerDay == 24            \* range(24)

\* {h: hours.get(h, 0) for h in range(24)}
Dense(hours) == [h \in 0..(HoursPerDay - 1) |-> IF h \in DOMAIN hours THEN hours[h] ELSE 0]

\* variant: the distribution is the Counter itself
DistributionSparse(messages, hours) == hours

\* the hourly_distribution returned: {} by the early return for no messages
Distribution(messages, hours) == IF messages = <<>> THEN NoHours ELSE Dense(hours)

analyze_single_user_stats(messages) ==
    LET st == SingleLoop(messages, NoStats)
    IN [message_count |-> st.message_count, char_count |-> st.char_count,
        emoji_count |-> st.emoji_count, hours |-> st.hours,
        hourly_distribution |-> Distribution(messages, st.hours)]

\* ------------------------------------------------------ statistics inputs
CpA == 97                    \* "a"
CpSeven == 55                \* "7"
CpHan == 20320               \* U+4F60, an ideograph
CpGrin == 128512             \* U+1F600, an emoticon
CpRocket == 128640           \* U+1F680, a transport symbol

U1 == VStr(<<"u", "1">>)
U2 == VStr(<<"u", "2">>)

LastOfDay == 57599           \* 23:59:59 local time of day 0
NextDay == 57600             \* 00:00:00 local time of day 1

Messages ==
    { Msg(U1, A, TRUE, <<CpA>>, TRUE, 0),
      Msg(U1, B, TRUE, <<CpGrin, CpGrin, CpA, CpRocket>>, TRUE, LastOfDay),
      Msg(U2, A, TRUE, <<CpHan, CpHan>>, TRUE, NextDay),
      Msg(U2, B, FALSE, <<>>, TRUE, LastOfDay),
      Msg(VAbsent, A, TRUE, <<CpA>>, TRUE, 0),
      Msg(VStr(<<>>), VAbsent, TRUE, <<CpGrin>>, FALSE, 0),
      Msg(VNull, A, FALSE, <<>>, TRUE, 0),
      Msg(VInt(7), VAbsent, TRUE, <<>>, FALSE, 0) }

Codepoints == { CpA, CpSeven, CpHan, CpGrin, CpRocket }

\* a statistics operation is about to be called
InitStats ==
    /\ clock = 0
    /\ cfgTime = <<Num(DefaultHour), Num(DefaultMinute)>>
    /\ cfgEnabled = TRUE
    /\ cfgAuto = TRUE
    /\ InitSched
    /\ \/ vkind \in {"stats", "single"} /\ data \in SeqsUpTo(Messages, MaxMsgs)
       \/ vkind = "emoji" /\ data \in SeqsUpTo(Codepoints, MaxText)
    /\ user_stats = <<>>
    /\ result = [raised |-> FALSE, out |-> <<>>]
    /\ vpc = "ready"
    /\ llm = NoService

AnalyzeUserStats ==
    /\ vkind = "stats"
    /\ vpc = "ready"
    /\ result' = [raised |-> FALSE, out |-> analyze_user_stats(data, <<>>)]
    /\ vpc' = "done"
    /\ UNCHANGED <<schedVars, vkind, data, user_stats, llm>>

AnalyzeSingleUserStats ==
    /\ vkind = "single"
    /\ vpc = "ready"
    /\ result' = [raised |-> FALSE, out |-> analyze_single_user_stats(data)]
    /\ vpc' = "done"
    /\ UNCHANGED <<schedVars, vkind, data, user_stats, llm>>

CountEmojis ==
    /\ vkind = "emoji"
    /\ vpc = "ready"
    /\ result' = [raised |-> FALSE, out |-> count_emojis(data)]
    /\ vpc' = "done"
    /\ UNCHANGED <<schedVars, vkind, data, user_stats, llm>>

NextStats ==
    \/ AnalyzeUserStats
    \/ AnalyzeSingleUserStats
    \/ CountEmojis

SpecStats == InitStats /\ [][NextStats]_vars

\* ============================================== ChatAnalysisUtils: JSON recovery
\* The texts followed here hold no backslash, and their numbers are unsigned
\* integers.
LBracket == 91               \* [
RBracket == 93               \* ]
LBrace == 123                \* {
RBrace == 125                \* }
Quote == 34                  \* "
Colon == 58                  \* :
Comma == 44                  \* ,
Backtick == 96               \* `
Backslash == 92
Space == 32
Tab == 9
Newline == 10
Return == 13
Zero == 48                   \* "0"
Nine == 57                   \* "9"
HanLo == 19968               \* U+4E00
HanHi == 40959               \* U+9FFF

\* str.strip() and \s, among the codepoints followed
IsSpace(c) == c \in {Space, Tab, Newline, Return}

IsDigitCp(c) == c \in Zero..Nine         \* \d
IsHan(c) == c \in HanLo..HanHi           \* [一-鿿]

RECURSIVE SkipSpace(_)
SkipSpace(s) == IF s # <<>> /\ IsSpace(s[1]) THEN SkipSpace(Tail(s)) ELSE s

RECURSIVE DropSpaceEnd(_)
DropSpaceEnd(s) ==
    IF s # <<>> /\ IsSpace(s[Len(s)]) THEN DropSpaceEnd(SubSeq(s, 1, Len(s) - 1)) ELSE s

StripText(s) == DropSpaceEnd(SkipSpace(s))                  \* s.strip()

StartsWith(s, p) == Len(s) >= Len(p) /\ SubSeq(s, 1, Len(p)) = p

\* s.find(c) and s.rfind(c), counted from 1; 0 when c is not in s
Find(s, c) ==
    IF \E i \in 1..Len(s) : s[i] = c
    THEN CHOOSE i \in 1..Len(s) : s[i] = c /\ \A j \in 1..(i - 1) : s[j] # c
    ELSE 0

RFind(s, c) ==
    IF \E i \in 1..Len(s) : s[i] = c
    THEN CHOOSE i \in 1..Len(s) : s[i] = c /\ \A j \in (i + 1)..Len(s) : s[j] # c
    ELSE 0

\* -------------------------------------------------------------- json.loads
VDict(pairs) == [t |-> "dict", s |-> <<>>, n |-> 0, l |-> pairs]  \* (key, value) in dict order

NoParse == [ok |-> FALSE, v |-> VNull, rest |-> <<>>]
Parsed(v, rest) == [ok |-> TRUE, v |-> v, rest |-> rest]

\* d[k] = v on a dict kept as its items in order
DictPut(pairs, k, v) ==
    IF \E i \in 1..Len(pairs) : pairs[i].k = k
    THEN [i \in 1..Len(pairs) |-> IF pairs[i].k = k THEN [k |-> k, v |-> v] ELSE pairs[i]]
    ELSE Append(pairs, [k |-> k, v |-> v])

\* a string, s[1] being its opening quote: it ends at the next quote, and no
\* control character may stand in it
ParseString(s) ==
    LET close == Find(Tail(s), Quote)
        body == SubSeq(s, 2, close)
    IN IF close = 0 THEN NoParse
       ELSE IF \E i \in 1..Len(body) : body[i] < Space \/ body[i] = Backslash THEN NoParse
       ELSE Parsed(VStr(body), Drop(s, close + 1))

RECURSIVE DigitRunCp(_)
DigitRunCp(s) == IF s # <<>> /\ IsDigitCp(s[1]) THEN 1 + DigitRunCp(Tail(s)) ELSE 0

RECURSIVE NumberOf(_)
NumberOf(d) ==
    IF d = <<>> THEN 0 ELSE NumberOf(SubSeq(d, 1, Len(d) - 1)) * 10 + (d[Len(d)] - Zero)

\* a number, s[1] being a digit: 0, or digits without a leading 0
ParseNumber(s) ==
    LET k == IF s[1] = Zero THEN 1 ELSE DigitRunCp(s)
    IN Parsed(VInt(NumberOf(SubSeq(s, 1, k))), Drop(s, k))

LitNull == <<110, 117, 108, 108>>        \* null
LitTrue == <<116, 114, 117, 101>>        \* true
LitFalse == <<102, 97, 108, 115, 101>>   \* false

RECURSIVE ParseValue(_)
RECURSIVE ParseElems(_, _)
RECURSIVE ParseMembers(_, _)

\* the elements of an array after "[" or ",": s starts at a value
ParseElems(s, acc) ==
    LET r == ParseValue(s)
        t == SkipSpace(r.rest)
    IN IF ~r.ok \/ t = <<>> THEN NoParse
       ELSE IF t[1] = RBracket THEN Parsed(VList(Append(acc, r.v)), Tail(t))
       ELSE IF t[1] = Comma THEN ParseElems(SkipSpace(Tail(t)), Append(acc, r.v))
       ELSE NoParse

\* the members of an object after "{" or ",": s starts at a key
ParseMembers(s, acc) ==
    IF s = <<>> \/ s[1] # Quote THEN NoParse
    ELSE LET k == ParseString(s)
             c == SkipSpace(k.rest)
         IN IF ~k.ok \/ c = <<>> \/ c[1] # Colon THEN NoParse
            ELSE LET r == ParseValue(SkipSpace(Tail(c)))
                     t == SkipSpace(r.rest)
                 IN IF ~r.ok \/ t = <<>> THEN NoParse
                    ELSE IF t[1] = RBrace
                    THEN Parsed(VDict(DictPut(acc, k.v.s, r.v)), Tail(t))
                    ELSE IF t[1] = Comma
                    THEN ParseMembers(SkipSpace(Tail(t)), DictPut(acc, k.v.s, r.v))
                    ELSE NoParse

\* one JSON value at the head of s
ParseValue(s) ==
    IF s = <<>> THEN NoParse
    ELSE IF s[1] = Quote THEN ParseString(s)
    ELSE IF IsDigitCp(s[1]) THEN ParseNumber(s)
    ELSE IF StartsWith(s, LitNull) THEN Parsed(VNull, Drop(s, Len(LitNull)))
    ELSE IF StartsWith(s, LitTrue) THEN Parsed(VBool(TRUE), Drop(s, Len(LitTrue)))
    ELSE IF StartsWith(s, LitFalse) THEN Parsed(VBool(FALSE), Drop(s, Len(LitFalse)))
    ELSE IF s[1] = LBracket
    THEN (LET t == SkipSpace(Tail(s))
          IN IF t # <<>> /\ t[1] = RBracket THEN Parsed(VList(<<>>), Tail(t))
             ELSE ParseElems(t, <<>>))
    ELSE IF s[1] = LBrace
    THEN (LET t == SkipSpace(Tail(s))
          IN IF t # <<>> /\ t[1] = RBrace THEN Parsed(VDict(<<>>), Tail(t))
             ELSE ParseMembers(t, <<>>))
    ELSE NoParse

\* json.loads(s): ok is FALSE for JSONDecodeError
JsonLoads(s) ==
    LET r == ParseValue(SkipSpace(s))
    IN IF r.ok /\ SkipSpace(r.rest) = <<>> THEN r ELSE NoParse

\* ------------------------------------- _parse_llm_json, _parse_llm_json_object
FenceMark == <<Backtick, Backtick, Backtick>>
JsonTag == <<106, 115, 111, 110>>        \* json

\* the first place where p stands in s, 0 when it stands nowhere
FindSeq(s, p) ==
    IF \E i \in 1..(Len(s) - Len(p) + 1) : SubSeq(s, i, i + Len(p) - 1) = p
    THEN CHOOSE i \in 1..(Len(s) - Len(p) + 1) :
             /\ SubSeq(s, i, i + Len(p) - 1) = p
             /\ \A j \in 1..(i - 1) : SubSeq(s, j, j + Len(p) - 1) # p
    ELSE 0

\* result.split("```")[1] of a text that starts with the fence mark
SplitSecond(s) ==
    LET rest == Drop(s, Len(FenceMark))
        next == FindSeq(rest, FenceMark)
    IN IF next = 0 THEN rest ELSE SubSeq(rest, 1, next - 1)

\* the fence handling: parts[1] without a leading "json"
Unfence(s) ==
    IF StartsWith(s, FenceMark)
    THEN (LET part == SplitSecond(s)
          IN IF StartsWith(part, JsonTag) THEN Drop(part, Len(JsonTag)) ELSE part)
    ELSE s

ArrayKind == "array"         \* _parse_llm_json
ObjectKind == "object"       \* _parse_llm_json_object
OpenOf(kind) == IF kind = ArrayKind THEN LBracket ELSE LBrace
CloseOf(kind) == IF kind = ArrayKind THEN RBracket ELSE RBrace

\* result[start_idx:end_idx + 1] from the first opener to the last closer
Extract(s, kind) ==
    LET start_idx == Find(s, OpenOf(kind))
        end_idx == RFind(s, CloseOf(kind))
    IN IF start_idx # 0 /\ end_idx # 0 /\ end_idx > start_idx
       THEN SubSeq(s, start_idx, end_idx)
       ELSE s

\* the text handed to the first json.loads
Prepared(s, kind) == Extract(StripText(Unfence(StripText(s))), kind)

NotEmoji(c) == ~InEmojiClass(c)

\* EMOJI_PATTERN.sub('', s)
EmojiSub(s) == SelectSeq(s, NotEmoji)

RECURSIVE SpaceRunCp(_)
SpaceRunCp(s) == IF s # <<>> /\ IsSpace(s[1]) THEN 1 + SpaceRunCp(Tail(s)) ELSE 0

HanHan == "hh"
HanDigit == "hd"
DigitHan == "dh"
LeftClass(mode, c) == IF mode = DigitHan THEN IsDigitCp(c) ELSE IsHan(c)
RightClass(mode, c) == IF mode = HanDigit THEN IsDigitCp(c) ELSE IsHan(c)

\* re.sub(r'(L)\s+(R)', r'\1\2', s), matches taken left to right without overlap
RECURSIVE Collapse(_, _)
Collapse(s, mode) ==
    IF s = <<>> THEN <<>>
    ELSE LET k == SpaceRunCp(Tail(s))
         IN IF /\ LeftClass(mode, s[1])
               /\ k >= 1
               /\ Len(s) >= k + 2
               /\ RightClass(mode, s[k + 2])
            THEN <<s[1], s[k + 2]>> \o Collapse(Drop(s, k + 2), mode)
            ELSE <<s[1]>> \o Collapse(Tail(s), mode)

\* result_cleaned as the second json.loads gets it
Repair(s, kind) ==
    LET spaced == Collapse(Extract(EmojiSub(s), kind), HanHan)
    IN IF kind = ArrayKind
       THEN Collapse(Collapse(spaced, HanDigit), DigitHan)
       ELSE spaced

\* isinstance(data, list) with every item a dict, or isinstance(data, dict)
TypeOk(v, kind) ==
    IF kind = ArrayKind
    THEN v.t = "list" /\ \A i \in 1..Len(v.l) : v.l[i].t = "dict"
    ELSE v.t = "dict"

Failure(kind) == IF kind = ArrayKind THEN VList(<<>>) ELSE VNull   \* [] or None

\* what a recovery gives: tier is 1 or 2 for the json.loads that gave out,
\* 0 for the failure value
Recovered(out, tier) == [raised |-> FALSE, out |-> out, tier |-> tier]
Uncaught == [raised |-> TRUE, out |-> VNull, tier |-> 0]

Checked(loaded, kind, tier) ==
    IF TypeOk(loaded.v, kind) THEN Recovered(loaded.v, tier) ELSE Recovered(Failure(kind), 0)

\* variant: the handler without its inner try
SecondTierUncaught(s, kind) ==
    LET loaded == JsonLoads(Repair(s, kind))
    IN IF ~loaded.ok THEN Uncaught ELSE Checked(loaded, kind, 2)

\* the except json.JSONDecodeError handler
SecondTier(s, kind) ==
    LET loaded == JsonLoads(Repair(s, kind))
    IN IF ~loaded.ok THEN Recovered(Failure(kind), 0) ELSE Checked(loaded, kind, 2)

\* the body shared by the two functions; arg is the reply as a value
Recover(arg, kind) ==
    IF arg.t # "str" THEN Recovered(Failure(kind), 0)      \* except Exception
    ELSE LET text == Prepared(arg.s, kind)
             loaded == JsonLoads(text)
         IN IF loaded.ok THEN Checked(loaded, kind, 1) ELSE SecondTier(text, kind)

parse_llm_json(arg) == Recover(arg, ArrayKind)
parse_llm_json_object(arg) == Recover(arg, ObjectKind)

\* ------------------------------------------------------------------ replies
MaxElems == 2                \* elements of an array written into a reply

KeyK == <<107>>              \* k
KeyN == <<110>>              \* n
Quoted(s) == <<Quote>> \o s \o <<Quote>>

\* {"k":"..."}
ObjText(v) == <<LBrace>> \o Quoted(KeyK) \o <<Colon>> \o Quoted(v) \o <<RBrace>>

\* {"k":"a", "n": 7}
ObjTextTwo ==
    <<LBrace>> \o Quoted(KeyK) \o <<Colon>> \o Quoted(<<CpA>>) \o <<Comma, Space>>
        \o Quoted(KeyN) \o <<Colon, Space, CpSeven, RBrace>>

StrVals == {<<CpA>>, <<CpHan, CpHan>>, <<CpHan, Space, CpSeven>>, FenceMark, <<CpGrin>>}

Mappings == {ObjText(v) : v \in StrVals} \cup {ObjTextTwo}
Elements == Mappings \cup {<<CpSeven>>}

RECURSIVE JoinComma(_)
JoinComma(elems) ==
    IF elems = <<>> THEN <<>>
    ELSE IF Len(elems) = 1 THEN elems[1]
    ELSE elems[1] \o <<Comma>> \o JoinComma(Tail(elems))

ArrText(elems) == <<LBracket>> \o JoinComma(elems) \o <<RBracket>>

ArraysOfMappings == {ArrText(e) : e \in SeqsUpTo(Mappings, MaxElems)}
Arrays == {ArrText(e) : e \in SeqsUpTo(Elements, MaxElems)}
Bodies == Arrays \cup Elements \cup {<<CpA>>}

OpenFence == FenceMark \o <<Newline>>
OpenFenceJson == FenceMark \o JsonTag \o <<Newline>>
OpenFenceOther == FenceMark \o <<106, 115, Newline>>          \* ```js
FenceLines == {OpenFence, OpenFenceJson, OpenFenceOther}
Befores == FenceLines \cup {<<>>}

CloseFence == <<Newline>> \o FenceMark
Proses == {<<>>, <<Newline, CpA>>, <<Newline, CpA, RBracket, RBrace>>}
FenceEnds == {CloseFence \o p : p \in Proses}
Afters == FenceEnds \cup {<<>>, <<Space, CpA>>}

\* s with one emoji put in after its first at codepoints; at = 0 leaves s alone
Broken(s, at) == IF at = 0 THEN s ELSE SubSeq(s, 1, at) \o <<CpGrin>> \o Drop(s, at)

\* a reply in parts: what stands before the body, the body, what stands after
\* it, and where an emoji broke into the body; str is FALSE for a reply that
\* is no text
ReplyParts(pre, body, post, at, str) ==
    [pre |-> pre, body |-> body, post |-> post, at |-> at, str |-> str]

ReplyOf(d) == IF d.str THEN VStr(d.pre \o Broken(d.body, d.at) \o d.post) ELSE VNull

Replies ==
    {ReplyParts(pre, body, post, at, TRUE) :
        pre \in Befores, body \in Bodies, post \in Afters, at \in 0..1}
    \cup {ReplyParts(<<>>, body, <<>>, Len(body) - 1, TRUE) : body \in Bodies}
    \cup {ReplyParts(<<>>, <<>>, <<>>, 0, FALSE)}

InitRecover ==
    /\ clock = 0
    /\ cfgTime = <<Num(DefaultHour), Num(DefaultMinute)>>
    /\ cfgEnabled = TRUE
    /\ cfgAuto = TRUE
    /\ InitSched
    /\ vkind \in {ArrayKind, ObjectKind}
    /\ data \in Replies
    /\ user_stats = <<>>
    /\ result = Recovered(VNull, 0)
    /\ vpc = "ready"
    /\ llm = NoService

ParseLlmJson ==
    /\ vkind = ArrayKind
    /\ vpc = "ready"
    /\ result' = parse_llm_json(ReplyOf(data))
    /\ vpc' = "done"
    /\ UNCHANGED <<schedVars, vkind, data, user_stats, llm>>

ParseLlmJsonObject ==
    /\ vkind = ObjectKind
    /\ vpc = "ready"
    /\ result' = parse_llm_json_object(ReplyOf(data))
    /\ vpc' = "done"
    /\ UNCHANGED <<schedVars, vkind, data, user_stats, llm>>

NextRecover ==
    \/ ParseLlmJson
    \/ ParseLlmJsonObject

SpecRecover == InitRecover /\ [][NextRecover]_vars

\* ============================= ChatAnalysisUtils: the analyses that ask the service
MaxLines == 3                \* messages of a transcript handed to an analysis

Slash == 47                  \* /
AtSign == 64                 \* @
LessThan == 60               \* <
GreaterThan == 62            \* >

\* length of the longest prefix matching [^<\s]*
RECURSIVE NameRunCp(_)
NameRunCp(s) ==
    IF s # <<>> /\ s[1] # LessThan /\ ~IsSpace(s[1]) THEN 1 + NameRunCp(Tail(s)) ELSE 0

\* length of the match of @[^<\s]+<\d+>\s* at the head of a text, 0 when there
\* is none
MentionLenCp(s) ==
    IF s = <<>> \/ s[1] # AtSign THEN 0
    ELSE LET a == NameRunCp(Tail(s))
             r1 == Drop(s, 1 + a)
         IN IF a = 0 \/ r1 = <<>> \/ r1[1] # LessThan THEN 0
            ELSE LET b == DigitRunCp(Tail(r1))
                     r2 == Drop(r1, 1 + b)
                 IN IF b = 0 \/ r2 = <<>> \/ r2[1] # GreaterThan THEN 0
                    ELSE a + b + 3 + SpaceRunCp(Tail(r2))

\* re.sub(r'@[^<\s]+<\d+>\s*', '', text) on a message text
RECURSIVE RemoveMentionsCp(_)
RemoveMentionsCp(s) ==
    IF s = <<>> THEN <<>>
    ELSE IF MentionLenCp(s) > 0 THEN RemoveMentionsCp(Drop(s, MentionLenCp(s)))
    ELSE <<s[1]>> \o RemoveMentionsCp(Tail(s))

TopicTextMin == 2            \* len(text) > 2
SampleTextMin == 5           \* len(text) < 5 is too short
MinMessagesForTitle == 2     \* AnalysisConfig.MIN_MESSAGES_FOR_TITLE, as configured here

\* analyze_topics: the message goes into text_messages
TopicUsable(msg) ==
    LET text == StripText(RemoveMentionsCp(TextOf(msg)))
    IN Len(text) > TopicTextMin /\ ~StartsWith(text, <<Slash>>)

IsActive(st) == st.message_count >= MinMessagesForTitle
active_users(us) == SelectSeq(us, IsActive)

\* analyze_depression_index: the messages that go into user_messages
SampleLines(messages, us) ==
    { i \in 1..Len(messages) :
        /\ IndexOfUser(active_users(us), UserIdOf(messages[i])) # 0
        /\ Len(TextOf(messages[i])) >= SampleTextMin }

TopicsKind == "analyze_topics"
TitlesKind == "analyze_user_titles"
IndexKind == "analyze_depression_index"
AnalysisKinds == {TopicsKind, TitlesKind, IndexKind}

QuotesKind == "analyze_golden_quotes"
MinQuoteLength == 5          \* AnalysisConfig.MIN_QUOTE_LENGTH, as configured here
MaxQuoteLength == 100        \* AnalysisConfig.MAX_QUOTE_LENGTH, as configured here
HttpPrefix == <<104, 116, 116, 112>>     \* http
WwwPrefix == <<119, 119, 119>>           \* www

\* analyze_golden_quotes: the message goes into interesting_messages
QuoteUsable(msg) ==
    LET text == StripText(RemoveMentionsCp(TextOf(msg)))
    IN /\ MinQuoteLength <= Len(text)
       /\ Len(text) <= MaxQuoteLength
       /\ ~StartsWith(text, HttpPrefix)
       /\ ~StartsWith(text, WwwPrefix)
       /\ ~StartsWith(text, <<Slash>>)

\* no early return stands between the entry of the analysis and its
\* generate_with_model
ReachesCall(kind, messages, us) ==
    CASE kind = TopicsKind -> messages # <<>> /\ SelectSeq(messages, TopicUsable) # <<>>
      [] kind = TitlesKind -> active_users(us) # <<>>
      [] kind = IndexKind -> active_users(us) # <<>> /\ SampleLines(messages, us) # {}
      [] kind = QuotesKind -> SelectSeq(messages, QuoteUsable) # <<>>

\* variant: the request is sent again when the first one is out
GenerateWithRetry(l) == [l EXCEPT !.calls = @ + 2]

\* await llm_api.generate_with_model(...): the one request of an analysis
GenerateWithModel(l) == [l EXCEPT !.calls = @ + 1]

\* user_stats as the validators read it
StatsArg(us) == [k \in 1..Len(us) |-> [uid |-> us[k].user_id, nickname |-> us[k].nickname]]

Empty == [raised |-> FALSE, out |-> <<>>]                 \* return []

Validated(kind, parsed, us) ==
    CASE kind = TopicsKind -> validate_topics(parsed)
      [] kind = TitlesKind -> validate_titles(parsed, StatsArg(us))
      [] kind = IndexKind -> validate_depression_index(parsed, StatsArg(us))
      [] kind = QuotesKind -> validate_quotes(parsed)

\* what the analysis returns once the service has answered; an exception of
\* the validator ends in the except Exception of the analysis
Returned(kind, l, us) ==
    IF ~l.success THEN Empty
    ELSE IF Validated(kind, l.parsed, us).raised THEN Empty
    ELSE Validated(kind, l.parsed, us)

\* the replies of the service, as _parse_llm_json hands them on
ParsedReplies(kind) ==
    CASE kind = TopicsKind -> SeqsUpTo(TopicItems, 1)
      [] kind = TitlesKind -> SeqsUpTo(TitleItems, 1)
      [] kind = IndexKind -> SeqsUpTo(RankItems, 1)

Mention == <<AtSign, CpA, LessThan, CpSeven, GreaterThan, Space>>          \* "@a<7> "

ChatLines ==
    { Msg(U1, A, TRUE, <<CpA, CpA, CpA>>, TRUE, 0),
      Msg(U1, A, TRUE, <<CpA, CpA, CpA, CpA, CpA>>, TRUE, 0),
      Msg(U2, B, TRUE, <<Slash, CpA, CpA, CpA, CpA>>, TRUE, 0),
      Msg(U2, B, FALSE, <<>>, TRUE, 0),
      Msg(U1, A, TRUE, Mention \o <<CpA, CpA>>, TRUE, 0) }

\* an analysis is about to be called by the pipeline, which has computed
\* user_stats from the same messages
InitAnalyze ==
    /\ clock = 0
    /\ cfgTime = <<Num(DefaultHour), Num(DefaultMinute)>>
    /\ cfgEnabled = TRUE
    /\ cfgAuto = TRUE
    /\ InitSched
    /\ vkind \in AnalysisKinds
    /\ data \in SeqsUpTo(ChatLines, MaxLines)
    /\ user_stats = analyze_user_stats(data, <<>>)
    /\ result = Empty
    /\ vpc = "ready"
    /\ llm = NoService

\* from the entry to an early return
AnalyzeReturnEarly ==
    /\ vkind \in AnalysisKinds
    /\ vpc = "ready"
    /\ ~ReachesCall(vkind, data, user_stats)
    /\ result' = Empty
    /\ vpc' = "done"
    /\ UNCHANGED <<schedVars, vkind, data, user_stats, llm>>

\* from the entry to the await of the service
AnalyzeCall ==
    /\ vkind \in AnalysisKinds
    /\ vpc = "ready"
    /\ ReachesCall(vkind, data, user_stats)
    /\ llm' = GenerateWithModel(llm)
    /\ vpc' = "awaiting"
    /\ UNCHANGED <<schedVars, vkind, data, user_stats, result>>

\* the service reports a failure: the analysis returns []
AnalyzeFailure ==
    /\ vkind \in AnalysisKinds
    /\ vpc = "awaiting"
    /\ llm' = [llm EXCEPT !.success = FALSE, !.parsed = <<>>]
    /\ result' = Returned(vkind, llm', user_stats)
    /\ vpc' = "done"
    /\ UNCHANGED <<schedVars, vkind, data, user_stats>>

\* the service answers: the reply is parsed, validated and returned
AnalyzeReply ==
    /\ vkind \in AnalysisKinds
    /\ vpc = "awaiting"
    /\ \E parsed \in ParsedReplies(vkind) :
          /\ llm' = [llm EXCEPT !.success = TRUE, !.parsed = parsed]
          /\ result' = Returned(vkind, llm', user_stats)
    /\ vpc' = "done"
    /\ UNCHANGED <<schedVars, vkind, data, user_stats>>

NextAnalyze ==
    \/ AnalyzeReturnEarly
    \/ AnalyzeCall
    \/ AnalyzeFailure
    \/ AnalyzeReply

SpecAnalyze == InitAnalyze /\ [][NextAnalyze]_vars

\* ================================== ChatSummaryCommand.execute: the four analyses
MaxPipelineLines == 2        \* messages of the transcript of a /summary run

\* topics, user_titles, golden_quotes, depression_index, in this order
PipelineOrder == <<TopicsKind, TitlesKind, QuotesKind, IndexKind>>

PipelineReplies(kind) ==
    CASE kind = TopicsKind ->
             {<<>>, <<Item([topic |-> B, detail |-> A, contributors |-> VList(<<B>>)])>>}
      [] kind = TitlesKind ->
             {<<>>, <<Item([name |-> A, title |-> A, reason |-> A,
                            mbti |-> VStr(<<"i", "n", "t", "j">>)])>>}
      [] kind = QuotesKind ->
             {<<>>, <<Item([content |-> B, sender |-> B, reason |-> A])>>}
      [] kind = IndexKind ->
             {<<>>, <<Item([name |-> B, rank |-> VStr(<<"A">>), comment |-> A,
                            score |-> VInt(100)])>>}

\* the analysis the pipeline is at, once `done` holds those that have returned
CurrentKind(done) == PipelineOrder[Len(done) + 1]

\* what an analysis has come to: outcome is "early" for a return before the
\* request, else what the service did
AnalysisDone(kind, outcome, r) ==
    [kind |-> kind, outcome |-> outcome, out |-> r.out, raised |-> r.raised]

\* variant: the analysis has no except Exception around its request
ServiceRaisedEscapes == [raised |-> TRUE, out |-> <<>>]

\* generate_with_model raises: the except Exception of the analysis returns []
ServiceRaised == Empty

\* the statement after an await of an analysis: the next one, or the except
\* Exception of execute when the analysis raised
AfterAnalysis(r) == IF r.raised THEN "failed" ELSE "ready"

InitPipeline ==
    /\ clock = 0
    /\ cfgTime = <<Num(DefaultHour), Num(DefaultMinute)>>
    /\ cfgEnabled = TRUE
    /\ cfgAuto = TRUE
    /\ InitSched
    /\ vkind = "pipeline"
    /\ data \in SeqsUpTo(ChatLines, MaxPipelineLines) \ {<<>>}
    /\ user_stats = analyze_user_stats(data, <<>>)
    /\ result = <<>>
    /\ vpc = "ready"
    /\ llm = NoService

\* an analysis is awaited and returns before its request
PipelineEarly ==
    /\ vkind = "pipeline"
    /\ vpc = "ready"
    /\ Len(result) < Len(PipelineOrder)
    /\ ~ReachesCall(CurrentKind(result), data, user_stats)
    /\ result' = Append(result, AnalysisDone(CurrentKind(result), "early", Empty))
    /\ UNCHANGED <<schedVars, vkind, data, user_stats, vpc, llm>>

\* an analysis is awaited and gets to its request
PipelineCall ==
    /\ vkind = "pipeline"
    /\ vpc = "ready"
    /\ Len(result) < Len(PipelineOrder)
    /\ ReachesCall(CurrentKind(result), data, user_stats)
    /\ llm' = GenerateWithModel(llm)
    /\ vpc' = "awaiting"
    /\ UNCHANGED <<schedVars, vkind, data, user_stats, result>>

\* the service reports a failure
PipelineFailure ==
    /\ vkind = "pipeline"
    /\ vpc = "awaiting"
    /\ llm' = [llm EXCEPT !.success = FALSE, !.parsed = <<>>]
    /\ LET r == Returned(CurrentKind(result), llm', user_stats)
       IN /\ result' = Append(result, AnalysisDone(CurrentKind(result), "failure", r))
          /\ vpc' = AfterAnalysis(r)
    /\ UNCHANGED <<schedVars, vkind, data, user_stats>>

\* the request raises
PipelineRaise ==
    /\ vkind = "pipeline"
    /\ vpc = "awaiting"
    /\ result' = Append(result, AnalysisDone(CurrentKind(result), "raise", ServiceRaised))
    /\ vpc' = AfterAnalysis(ServiceRaised)
    /\ UNCHANGED <<schedVars, vkind, data, user_stats, llm>>

\* the service answers
PipelineReply ==
    /\ vkind = "pipeline"
    /\ vpc = "awaiting"
    /\ \E parsed \in PipelineReplies(CurrentKind(result)) :
          /\ llm' = [llm EXCEPT !.success = TRUE, !.parsed = parsed]
          /\ LET r == Returned(CurrentKind(result), llm', user_stats)
             IN /\ result' = Append(result, AnalysisDone(CurrentKind(result), "reply", r))
                /\ vpc' = AfterAnalysis(r)
    /\ UNCHANGED <<schedVars, vkind, data, user_stats>>

\* the four analyses have returned: the image is generated from their results
PipelineRender ==
    /\ vkind = "pipeline"
    /\ vpc = "ready"
    /\ Len(result) = Len(PipelineOrder)
    /\ vpc' = "done"
    /\ UNCHANGED <<schedVars, vkind, data, user_stats, result, llm>>

NextPipeline ==
    \/ PipelineEarly
    \/ PipelineCall
    \/ PipelineFailure
    \/ PipelineRaise
    \/ PipelineReply
    \/ PipelineRender

SpecPipeline == InitPipeline /\ [][NextPipeline]_vars

\* ==================== ChatSummaryCommand / UserSummaryCommand: group permission
MaxChats == 2                \* entries of command_permission.target_chats

SummaryCmd == "/summary"
MySummaryCmd == "/mysummary"

\* [int(chat_id) if isinstance(chat_id, str) else chat_id for chat_id in target_chats]
ChatIdOf(c) == IF c.t = "str" THEN PyInt(c) ELSE IntOk(c.n)

\* the group stage of execute: "private" for a message without group_info,
\* "error" for an exception that the except Exception of execute reports,
\* "invalid" for a group id that int() refuses, "refused" for the silent return
\* False, "passed" when execute goes on to its next stage
GroupPermission(cmd, use_blacklist, target_chats, group) ==
    IF group.t = "absent" THEN "private"
    ELSE IF \E i \in 1..Len(target_chats) : ChatIdOf(target_chats[i]).exc # "none"
    THEN "error"
    ELSE LET chats == { ChatIdOf(target_chats[i]).n : i \in 1..Len(target_chats) }
             group_id_int == PyInt(group)
         IN IF group_id_int.exc # "none" THEN "invalid"
            ELSE IF use_blacklist
            THEN (IF group_id_int.n \in chats THEN "refused" ELSE "passed")
            ELSE (IF target_chats # <<>> /\ group_id_int.n \notin chats
                  THEN "refused" ELSE "passed")

ChatEntries == { VInt(1), VStr(<<"2">>), VStr(<<"x">>) }
GroupIdValues == { VAbsent, VInt(1), VStr(<<"2">>), VInt(3), VStr(<<"x">>) }

InitPermission ==
    /\ clock = 0
    /\ cfgTime = <<Num(DefaultHour), Num(DefaultMinute)>>
    /\ cfgEnabled = TRUE
    /\ cfgAuto = TRUE
    /\ InitSched
    /\ vkind \in {SummaryCmd, MySummaryCmd}
    /\ data \in [use_blacklist : BOOLEAN,
                 target_chats : SeqsUpTo(ChatEntries, MaxChats),
                 group : GroupIdValues]
    /\ user_stats = <<>>
    /\ result = [raised |-> FALSE, out |-> "none"]
    /\ vpc = "ready"
    /\ llm = NoService

SummaryPermission ==
    /\ vkind = SummaryCmd
    /\ vpc = "ready"
    /\ result' = [raised |-> FALSE,
                  out |-> GroupPermission(SummaryCmd, data.use_blacklist,
                                          data.target_chats, data.group)]
    /\ vpc' = "done"
    /\ UNCHANGED <<schedVars, vkind, data, user_stats, llm>>

MySummaryPermission ==
    /\ vkind = MySummaryCmd
    /\ vpc = "ready"
    /\ result' = [raised |-> FALSE,
                  out |-> GroupPermission(MySummaryCmd, data.use_blacklist,
                                          data.target_chats, data.group)]
    /\ vpc' = "done"
    /\ UNCHANGED <<schedVars, vkind, data, user_stats, llm>>

NextPermission ==
    \/ SummaryPermission
    \/ MySummaryPermission

SpecPermission == InitPermission /\ [][NextPermission]_vars

\* ============================ UserSummaryCommand.execute: whose summary is made
\* The command is followed from the user_summary.enabled check on, for a
\* message that has passed the group stage and asks for a supported time range.
MaxAllowed == 1              \* entries of user_summary.allowed_users
MinUserMessages == 3         \* len(user_messages) < 3

NoText == <<>>               \* None, for a target id or name

\* the argument of /mysummary. form "cq" is [CQ:at,qq=id], "pair" is
\* @<name:id>, "at" is @value, "bare" is a number, "none" is no target
Args(form, id, name) == [form |-> form, id |-> id, name |-> name]

AllDigits(str) == str # <<>> /\ \A i \in 1..Len(str) : IsDigit(str[i])       \* str.isdigit()

\* target_user_id and target_user_name after the four patterns
TargetOf(args) ==
    CASE args.form = "cq" -> [id |-> args.id, name |-> NoText]
      [] args.form = "pair" -> [id |-> args.id, name |-> args.name]
      [] args.form = "at" -> (IF AllDigits(args.name)
                              THEN [id |-> args.name, name |-> NoText]
                              ELSE [id |-> NoText, name |-> args.name])
      [] args.form = "bare" -> [id |-> args.id, name |-> NoText]
      [] OTHER -> [id |-> NoText, name |-> NoText]

\* the loop over temp_messages: the user_id of the first message of that
\* nickname, None when there is none
RECURSIVE IdOfNickname(_, _)
IdOfNickname(messages, name) ==
    IF messages = <<>> THEN NoText
    ELSE IF messages[1].nick = name THEN messages[1].uid
    ELSE IdOfNickname(Tail(messages), name)

\* the target id once a bare nickname has been looked up
ResolvedId(args, messages) ==
    LET target == TargetOf(args)
    IN IF target.name # NoText /\ target.id = NoText
       THEN IdOfNickname(messages, target.name)
       ELSE target.id

\* int(current_user_id), 0 when int() refuses
UserIdInt(uid) == IF IntOfStr(uid).exc = "none" THEN IntOfStr(uid).n ELSE 0

\* variant: the list is not looked at
MayViewOthersAlways(allowed_users, current) == TRUE

\* not (allowed_users and current_user_id_int not in allowed_users)
MayViewOthers(allowed_users, current) ==
    \/ allowed_users = <<>>
    \/ \E i \in 1..Len(allowed_users) : ChatIdOf(allowed_users[i]).n = UserIdInt(current)

filter_user_messages(messages, user_id) ==
    SelectSeq(messages, LAMBDA msg : msg.uid = user_id)

Outcome(out, subject) == [raised |-> FALSE, out |-> out, subject |-> subject]

\* execute up to the first analysis: "analysing" when the analyses of
\* `subject` are awaited next, else the reason of the return
UserSummaryStage(d) ==
    LET target == TargetOf(d.args)
        target_user_id == ResolvedId(d.args, d.messages)
        other == target_user_id # NoText /\ target_user_id # d.current
        user_id == IF other THEN target_user_id ELSE d.current
        user_messages == filter_user_messages(d.messages, user_id)
    IN IF ~d.enabled THEN Outcome("disabled", NoText)
       ELSE IF target.name # NoText /\ target_user_id = NoText
       THEN Outcome("notfound", NoText)
       ELSE IF other /\ ~MayViewOthers(d.allowed_users, d.current)
       THEN Outcome("refused", NoText)
       ELSE IF d.messages = <<>> THEN Outcome("norecords", NoText)
       ELSE IF user_messages = <<>> THEN Outcome("nomessages", NoText)
       ELSE IF Len(user_messages) < MinUserMessages THEN Outcome("toofew", NoText)
       ELSE Outcome("analysing", user_id)

Id1 == <<"1">>
Id2 == <<"2">>
NickA == <<"a">>
NickB == <<"b">>
Line(uid, nick) == [uid |-> uid, nick |-> nick]

\* a day on which user 1 wrote three times and user 2 four times, a day on
\* which only user 1 wrote, and a day without messages
Transcripts ==
    { <<Line(Id1, NickA), Line(Id2, NickB), Line(Id1, NickA), Line(Id2, NickB),
        Line(Id2, NickB), Line(Id1, NickA), Line(Id2, NickB)>>,
      <<Line(Id1, NickA), Line(Id1, NickA), Line(Id1, NickA)>>,
      <<>> }

ArgsForms ==
    { Args("cq", id, NoText) : id \in {Id1, Id2} }
    \cup { Args("pair", id, NickA) : id \in {Id1, Id2} }
    \cup { Args("at", NoText, v) : v \in {Id1, Id2, NickA, NickB, <<"z">>} }
    \cup { Args("bare", id, NoText) : id \in {Id1, Id2, <<"0", "1">>} }
    \cup { Args("none", NoText, NoText) }

AllowedEntries == { VInt(1), VStr(<<"2">>) }

InitUserSummary ==
    /\ clock = 0
    /\ cfgTime = <<Num(DefaultHour), Num(DefaultMinute)>>
    /\ cfgEnabled = TRUE
    /\ cfgAuto = TRUE
    /\ InitSched
    /\ vkind = MySummaryCmd
    /\ data \in [enabled : BOOLEAN,
                 allowed_users : SeqsUpTo(AllowedEntries, MaxAllowed),
                 current : {Id1, Id2},
                 args : ArgsForms,
                 messages : Transcripts]
    /\ user_stats = <<>>
    /\ result = Outcome("none", NoText)
    /\ vpc = "check"
    /\ llm = NoService

\* execute returns before any analysis
UserSummaryReturn ==
    /\ vkind = MySummaryCmd
    /\ vpc = "check"
    /\ UserSummaryStage(data).out # "analysing"
    /\ result' = UserSummaryStage(data)
    /\ vpc' = "done"
    /\ UNCHANGED <<schedVars, vkind, data, user_stats, llm>>

\* execute gets to analyze_single_user_summary, which sends its request
UserSummaryAnalyse ==
    /\ vkind = MySummaryCmd
    /\ vpc = "check"
    /\ UserSummaryStage(data).out = "analysing"
    /\ result' = UserSummaryStage(data)
    /\ llm' = GenerateWithModel(llm)
    /\ vpc' = "analysing"
    /\ UNCHANGED <<schedVars, vkind, data, user_stats>>

\* the analyses return and the image of the summary is sent
UserSummarySend ==
    /\ vkind = MySummaryCmd
    /\ vpc = "analysing"
    /\ result' = [result EXCEPT !.out = "summary"]
    /\ vpc' = "done"
    /\ UNCHANGED <<schedVars, vkind, data, user_stats, llm>>

NextUserSummary ==
    \/ UserSummaryReturn
    \/ UserSummaryAnalyse
    \/ UserSummarySend

SpecUserSummary == InitUserSummary /\ [][NextUserSummary]_vars

\* =============================== _schedule_loop followed without an end
\* The loop of one scheduler that is started and never stopped, with no cap
\* on the failed cycles. The clock starts at the ON_START event and is
\* followed to the end of day MaxDay; a
\* callback ends, by returning or raising, by the midnight after its start.
LiveHorizon == (MaxDay + 1) * Day

LiveFrame == <<TaskFrame, nErrors, skipped>>

LiveBegin(t) ==
    /\ tasks[t].pc = "new"
    /\ tasks' = [tasks EXCEPT ![t] = LoopTop(@, is_running, clock, cfgTime)]
    /\ UNCHANGED <<LiveFrame, last_execution_date, completions>>

LiveWake(t) ==
    /\ tasks[t].pc = "sleep"
    /\ \E e \in EarlyWake : clock >= tasks[t].wakeAt - e
    /\ tasks' = [tasks EXCEPT ![t] = WakeStep(@)]
    /\ UNCHANGED <<LiveFrame, last_execution_date, completions>>

LiveReturn(t) ==
    /\ tasks[t].pc = "callback"
    /\ last_execution_date' = RecordedDate(tasks[t])
    /\ completions' = [d \in DOMAIN completions \cup {tasks[t].current_date} |-> 1]
    /\ tasks' = [tasks EXCEPT ![t] = LoopTop(@, is_running, clock, cfgTime)]
    /\ UNCHANGED LiveFrame

LiveRaise(t) ==
    /\ tasks[t].pc = "callback"
    /\ tasks' = [tasks EXCEPT ![t] = OnError(@)]
    /\ UNCHANGED <<LiveFrame, last_execution_date, completions>>

LiveBackoffWake(t) ==
    /\ tasks[t].pc = "backoff"
    /\ \E e \in EarlyWake : clock >= tasks[t].wakeAt - e
    /\ tasks' = [tasks EXCEPT ![t] = LoopTop(@, is_running, clock, cfgTime)]
    /\ UNCHANGED <<LiveFrame, last_execution_date, completions>>

\* time passes, to the next deadline or midnight: a task that is ready is
\* run before the clock moves on, and a sleep is resumed at its deadline
LiveTick ==
    /\ started
    /\ \E c \in Instants :
          /\ c > clock
          /\ c <= LiveHorizon
          /\ \A t \in TaskIds :
                /\ tasks[t].pc # "new"
                /\ tasks[t].pc \in {"sleep", "backoff"} => c <= tasks[t].wakeAt
                /\ tasks[t].pc = "callback" => c <= (tasks[t].current_date + 1) * Day
          /\ clock' = c
    /\ UNCHANGED <<cfgTime, cfgEnabled, cfgAuto, started, nSched, is_running, task,
                   last_execution_date, tasks, nTasks, awaiting, completions, nErrors,
                   skipped, valVars>>

LiveLoop(t) ==
    \/ LiveBegin(t)
    \/ LiveWake(t)
    \/ LiveReturn(t)
    \/ LiveRaise(t)
    \/ LiveBackoffWake(t)

NextLive ==
    \/ OnStart
    \/ (\E t \in TaskIds : LiveLoop(t))
    \/ LiveTick

\* the event loop runs every task that is ready, every await of the loop
\* ends (a sleep at its deadline, the callback by assumption), and time passes
Fairness ==
    /\ WF_vars(OnStart)
    /\ WF_vars(LiveTick)
    /\ \A t \in TaskIds : WF_vars(LiveLoop(t))

\* "23:00", "00:00", "25:00", "23", "ab:00"
LiveTimes == TimeStrs \cup { <<Num(23)>>, <<NotNum, Num(0)>> }

InitLive ==
    /\ clock \in StartTimes
    /\ cfgTime \in LiveTimes
    /\ cfgEnabled = TRUE
    /\ cfgAuto = TRUE
    /\ InitSched
    /\ InitVal

SpecLive == InitLive /\ [][NextLive]_vars /\ Fairness

\* ============== SummaryImageGenerator.generate_summary_image: the rank section
MaxRanks == 4                \* entries of depression_index
MaxDisplay == 3              \* max_depression_display

\* l[-n:] for n >= 0: the last n elements, and the whole list for n = 0
LastSlice(l, n) ==
    IF n = 0 \/ n >= Len(l) THEN l ELSE SubSeq(l, Len(l) - n + 1, Len(l))

\* a displayed entry: src is its place in depression_index, fall tells a
\* "fall k" position from a numbered one
Shown(src, fall, position) == [src |-> src, fall |-> fall, position |-> position]

\* depression_rankings for a section that is in display_order
depression_rankings(depression_index, max_depression_display, depression_show_bottom) ==
    LET total_count == Len(depression_index)
        places == [i \in 1..total_count |-> i]
        top_count == (max_depression_display + 1) \div 2
        bottom_count == max_depression_display - top_count
        top == Take(places, top_count)
        bottom_entries == LastSlice(places, bottom_count)
        first == Take(places, max_depression_display)
    IN IF total_count = 0 THEN <<>>
       ELSE IF total_count <= max_depression_display
       THEN [i \in 1..total_count |-> Shown(i, FALSE, i)]
       ELSE IF depression_show_bottom
       THEN [i \in 1..Len(top) |-> Shown(top[i], FALSE, i)]
            \o [i \in 1..Len(bottom_entries) |->
                   Shown(bottom_entries[i], TRUE, bottom_count - i + 1)]
       ELSE [i \in 1..Len(first) |-> Shown(first[i], FALSE, i)]

RankLabels == { <<"S">>, <<"D">> }

InitDisplay ==
    /\ clock = 0
    /\ cfgTime = <<Num(DefaultHour), Num(DefaultMinute)>>
    /\ cfgEnabled = TRUE
    /\ cfgAuto = TRUE
    /\ InitSched
    /\ vkind = "rankings"
    /\ data \in [depression_index : SeqsUpTo(RankLabels, MaxRanks),
                 max_depression_display : 0..MaxDisplay,
                 depression_show_bottom : BOOLEAN]
    /\ user_stats = <<>>
    /\ result = [raised |-> FALSE, out |-> <<>>]
    /\ vpc = "ready"
    /\ llm = NoService

RenderRankings ==
    /\ vkind = "rankings"
    /\ vpc = "ready"
    /\ result' = [raised |-> FALSE,
                  out |-> depression_rankings(data.depression_index,
                                              data.max_depression_display,
                                              data.depression_show_bottom)]
    /\ vpc' = "done"
    /\ UNCHANGED <<schedVars, vkind, data, user_stats, llm>>

NextDisplay == RenderRankings

SpecDisplay == InitDisplay /\ [][NextDisplay]_vars

\* ================================= html_renderer: the shared browser instance
\* Render requests are coroutines of one event loop: a step of a request runs
\* from one await to the next. `data` holds the module global and the fields
\* of the HTMLRenderer, `vpc` the await each request stands at, `result` what
\* each request has seen.
MaxRequests == 3
Requests == 1..MaxRequests
NoHolder == 0                \* _lock is free

\* _global_renderer is None <=> instances = 0; launches counts the browsers
\* that chromium.launch has returned
NoRenderer == [instances |-> 0, initialized |-> FALSE, browser |-> FALSE,
               launches |-> 0, lock |-> NoHolder]

Seen(waited, browser) == [raised |-> FALSE, waited |-> waited, browser |-> browser]

\* variant: no second look at _initialized once the lock is held
InitializedUnderLockUnchecked(d) == FALSE

\* `if self._initialized: return` inside `async with self._lock`
InitializedUnderLock(d) == d.initialized

\* HTMLRenderer.initialize from its first line to its first await, for a
\* renderer that is not initialized: wait for the lock, or take it and start
\* playwright
EnterInitialize(r) ==
    IF data.lock # NoHolder
    THEN /\ vpc' = [vpc EXCEPT ![r] = "waitlock"]
         /\ result' = [result EXCEPT ![r].waited = TRUE]
         /\ UNCHANGED data
    ELSE /\ vpc' = [vpc EXCEPT ![r] = "starting"]
         /\ data' = [data EXCEPT !.lock = r]
         /\ UNCHANGED result

\* render_html_to_image(...) is called: get_renderer, then the renderer's
\* method up to its first await
RenderRequest(r) ==
    /\ vkind = "render"
    /\ vpc[r] = "idle"
    /\ IF data.instances = 0
       THEN /\ data' = [data EXCEPT !.instances = 1, !.lock = r]
            /\ vpc' = [vpc EXCEPT ![r] = "starting"]
            /\ UNCHANGED result
       ELSE IF ~data.initialized
       THEN EnterInitialize(r)
       ELSE /\ vpc' = [vpc EXCEPT ![r] = IF data.browser THEN "rendering" ELSE "done"]
            /\ result' = [result EXCEPT ![r].browser = data.browser]
            /\ UNCHANGED data
    /\ UNCHANGED <<schedVars, vkind, user_stats, llm>>

\* a waiting request gets the lock (in any order among the waiters)
LockAcquired(r) ==
    /\ vkind = "render"
    /\ vpc[r] = "waitlock"
    /\ data.lock = NoHolder
    /\ IF InitializedUnderLock(data)
       THEN /\ vpc' = [vpc EXCEPT ![r] = IF data.browser THEN "rendering" ELSE "done"]
            /\ result' = [result EXCEPT ![r].browser = data.browser]
            /\ UNCHANGED data
       ELSE /\ vpc' = [vpc EXCEPT ![r] = "starting"]
            /\ data' = [data EXCEPT !.lock = r]
            /\ UNCHANGED result
    /\ UNCHANGED <<schedVars, vkind, user_stats, llm>>

\* `await async_playwright().start()` returns
PlaywrightStarted(r) ==
    /\ vkind = "render"
    /\ vpc[r] = "starting"
    /\ vpc' = [vpc EXCEPT ![r] = "launching"]
    /\ UNCHANGED <<schedVars, vkind, data, user_stats, result, llm>>

\* `await playwright.chromium.launch(...)` returns: the lock is released and
\* the request goes on to new_page
BrowserLaunched(r) ==
    /\ vkind = "render"
    /\ vpc[r] = "launching"
    /\ data' = [data EXCEPT !.browser = TRUE, !.initialized = TRUE,
                            !.launches = @ + 1, !.lock = NoHolder]
    /\ vpc' = [vpc EXCEPT ![r] = "rendering"]
    /\ result' = [result EXCEPT ![r].browser = TRUE]
    /\ UNCHANGED <<schedVars, vkind, user_stats, llm>>

\* start() or launch() raises: initialize logs, raises again, and the
\* request ends with that exception
LaunchFailed(r) ==
    /\ vkind = "render"
    /\ vpc[r] \in {"starting", "launching"}
    /\ data' = [data EXCEPT !.lock = NoHolder]
    /\ vpc' = [vpc EXCEPT ![r] = "done"]
    /\ result' = [result EXCEPT ![r].raised = TRUE]
    /\ UNCHANGED <<schedVars, vkind, user_stats, llm>>

\* the page is made, shot and closed
PageRendered(r) ==
    /\ vkind = "render"
    /\ vpc[r] = "rendering"
    /\ vpc' = [vpc EXCEPT ![r] = "done"]
    /\ UNCHANGED <<schedVars, vkind, data, user_stats, result, llm>>

InitRender ==
    /\ clock = 0
    /\ cfgTime = <<Num(DefaultHour), Num(DefaultMinute)>>
    /\ cfgEnabled = TRUE
    /\ cfgAuto = TRUE
    /\ InitSched
    /\ vkind = "render"
    /\ data = NoRenderer
    /\ user_stats = <<>>
    /\ result = [r \in Requests |-> Seen(FALSE, FALSE)]
    /\ vpc = [r \in Requests |-> "idle"]
    /\ llm = NoService

NextRender ==
    \E r \in Requests :
        \/ RenderRequest(r)
        \/ LockAcquired(r)
        \/ PlaywrightStarted(r)
        \/ BrowserLaunched(r)
        \/ LaunchFailed(r)
        \/ PageRendered(r)

SpecRender == InitRender /\ [][NextRender]_vars

\* ================================ the image file of a group summary request
\* Summary requests of one group (/summary commands and the daily job) are
\* coroutines of one event loop: a step runs from one await to the next.
\* `data` holds the images directory and the wall-clock second, `vpc` the
\* await each request stands at, `result` what each request has done.
MaxSummaryRequests == 2
MaxSecond == 1               \* the wall clock is followed over seconds 0 .. MaxSecond
SummaryRequests == 1..MaxSummaryRequests
Seconds == 0..MaxSecond
NoFile == 0                  \* no file of that name

\* files[s] is the request whose screenshot wrote summary_<group>_<s>.jpg
EmptyDir == [files |-> [s \in Seconds |-> NoFile], second |-> 0]

NoImage == [name |-> 0, produced |-> FALSE, read |-> "none", sent |-> "none"]

\* os.path.exists(img_path)
PathExists(files, name) == files[name] # NoFile

\* os.remove(img_path)
Remove(files, name) == [files EXCEPT ![name] = NoFile]

\* the glob over summary_<group>_*.jpg with os.remove of every match
RemoveOldImages(files) == [s \in Seconds |-> NoFile]

\* open(img_path, 'rb').read(): whose image the request gets
ReadImage(files, name, r) ==
    IF files[name] = NoFile THEN "missing"
    ELSE IF files[name] = r THEN "own" ELSE "other"

\* `finally: if os.path.exists(img_path): os.remove(img_path)`
FinallyRemove(files, name) ==
    IF PathExists(files, name) THEN Remove(files, name) ELSE files

\* generate_summary_image up to `await render_html_to_image`: the group's
\* older images are deleted and the new file is named by the second
GenerateStart(r) ==
    /\ vkind = "image"
    /\ vpc[r] = "idle"
    /\ data' = [data EXCEPT !.files = RemoveOldImages(@)]
    /\ result' = [result EXCEPT ![r].name = data.second]
    /\ vpc' = [vpc EXCEPT ![r] = "render"]
    /\ UNCHANGED <<schedVars, vkind, user_stats, llm>>

\* `await page.screenshot(path=...)` returns: the file is written, and the
\* renderer awaits page.close()
Screenshot(r) ==
    /\ vkind = "image"
    /\ vpc[r] = "render"
    /\ data' = [data EXCEPT !.files[result[r].name] = r]
    /\ result' = [result EXCEPT ![r].produced = TRUE]
    /\ vpc' = [vpc EXCEPT ![r] = "closing"]
    /\ UNCHANGED <<schedVars, vkind, user_stats, llm>>

\* the renderer returns False: IOError, and the summary is sent as text
RenderFailed(r) ==
    /\ vkind = "image"
    /\ vpc[r] = "render"
    /\ result' = [result EXCEPT ![r].sent = "text"]
    /\ vpc' = [vpc EXCEPT ![r] = "done"]
    /\ UNCHANGED <<schedVars, vkind, data, user_stats, llm>>

\* page.close() returns; generate_summary_image checks the path and returns
\* it, the caller checks it and reads the file, then awaits the send. A
\* missing path raises and the summary is sent as text; so does a failed
\* read, after the finally block.
GenerateReturn(r) ==
    /\ vkind = "image"
    /\ vpc[r] = "closing"
    /\ IF PathExists(data.files, result[r].name)
       THEN LET got == ReadImage(data.files, result[r].name, r)
            IN /\ result' = [result EXCEPT ![r].read = got,
                                           ![r].sent = IF got = "missing" THEN "text" ELSE @]
               /\ vpc' = [vpc EXCEPT ![r] = IF got = "missing" THEN "done" ELSE "sending"]
               /\ data' = [data EXCEPT !.files =
                              IF got = "missing" THEN FinallyRemove(@, result[r].name) ELSE @]
       ELSE /\ result' = [result EXCEPT ![r].sent = "text"]
            /\ vpc' = [vpc EXCEPT ![r] = "done"]
            /\ UNCHANGED data
    /\ UNCHANGED <<schedVars, vkind, user_stats, llm>>

\* the send returns, and the request sleeps 2 seconds
ImageSent(r) ==
    /\ vkind = "image"
    /\ vpc[r] = "sending"
    /\ result' = [result EXCEPT ![r].sent = "image"]
    /\ vpc' = [vpc EXCEPT ![r] = "sleeping"]
    /\ UNCHANGED <<schedVars, vkind, data, user_stats, llm>>

\* the send raises: the finally block, then the summary is sent as text
SendFailed(r) ==
    /\ vkind = "image"
    /\ vpc[r] = "sending"
    /\ data' = [data EXCEPT !.files = FinallyRemove(@, result[r].name)]
    /\ result' = [result EXCEPT ![r].sent = "text"]
    /\ vpc' = [vpc EXCEPT ![r] = "done"]
    /\ UNCHANGED <<schedVars, vkind, user_stats, llm>>

\* `await asyncio.sleep(2)` returns: the finally block
SleepDone(r) ==
    /\ vkind = "image"
    /\ vpc[r] = "sleeping"
    /\ data' = [data EXCEPT !.files = FinallyRemove(@, result[r].name)]
    /\ vpc' = [vpc EXCEPT ![r] = "done"]
    /\ UNCHANGED <<schedVars, vkind, result, user_stats, llm>>

\* datetime.now() moves to the next second
SecondPasses ==
    /\ vkind = "image"
    /\ data.second < MaxSecond
    /\ data' = [data EXCEPT !.second = @ + 1]
    /\ UNCHANGED <<schedVars, vkind, result, vpc, user_stats, llm>>

InitImage ==
    /\ clock = 0
    /\ cfgTime = <<Num(DefaultHour), Num(DefaultMinute)>>
    /\ cfgEnabled = TRUE
    /\ cfgAuto = TRUE
    /\ InitSched
    /\ vkind = "image"
    /\ data = EmptyDir
    /\ user_stats = <<>>
    /\ result = [r \in SummaryRequests |-> NoImage]
    /\ vpc = [r \in SummaryRequests |-> "idle"]
    /\ llm = NoService

NextImage ==
    \/ SecondPasses
    \/ \E r \in SummaryRequests :
          \/ GenerateStart(r)
          \/ Screenshot(r)
          \/ RenderFailed(r)
          \/ GenerateReturn(r)
          \/ ImageSent(r)
          \/ SendFailed(r)
          \/ SleepDone(r)

SpecImage == InitImage /\ [][NextImage]_vars

\* ===================================================================== C1
\* C1: once the callback has completed for date D, a wake-up that reads the
\* date D does not start the callback: no callback run starts on a date for
\* which a run has completed, and no date has two completed runs.
DuplicateFireGuard ==
    [][ /\ \A t \in TaskIds :
              (tasks[t].pc # "callback" /\ tasks'[t].pc = "callback")
                  => /\ tasks'[t].current_date = DateOf(clock)
                     /\ DateOf(clock) \notin DOMAIN completions
        /\ \A d \in DOMAIN completions' : completions'[d] <= 1 ]_vars

\* a wake-up was skipped on a date whose run had completed, and the loop sleeps again
DuplicateFireGuardWitness ==
    \E t \in TaskIds :
        /\ tasks[t].pc = "sleep"
        /\ \E d \in skipped : d \in DOMAIN completions /\ completions[d] = 1

\* ===================================================================== C2
\* C2: under a configured time HH:MM, the instant a cycle starts to sleep
\* until is the first HH:MM:00 strictly after `now`: the wait is positive and
\* at most 24 hours (fire 23:00: now 22:00 waits 1 h, now 23:30 waits 23.5 h,
\* now 23:00 waits 24 h).
SecondOfDay(t) == t - DateOf(t) * Day

ValidTime(s) ==
    /\ Len(s) = 2
    /\ s[1].num /\ s[1].val \in 0..23
    /\ s[2].num /\ s[2].val \in 0..59

NextFireInstant ==
    [][ \A t \in TaskIds :
          (/\ tasks'[t].pc = "sleep"
           /\ ~tasks'[t].cancelReq
           /\ tasks'[t] # tasks[t]
           /\ ValidTime(cfgTime)) =>
              LET hm == cfgTime[1].val * Hour + cfgTime[2].val * Minute
                  w == tasks'[t].wakeAt - clock
              IN /\ w > 0
                 /\ w <= Day
                 /\ SecondOfDay(tasks'[t].wakeAt) = hm
                 /\ (DateOf(tasks'[t].wakeAt) = DateOf(clock)) = (SecondOfDay(clock) < hm)
                 /\ (hm = 23 * Hour /\ SecondOfDay(clock) = 22 * Hour) => w = Hour
                 /\ (hm = 23 * Hour /\ SecondOfDay(clock) = 23 * Hour + 30 * Minute)
                        => w = 23 * Hour + 30 * Minute
                 /\ (hm = 23 * Hour /\ SecondOfDay(clock) = 23 * Hour) => w = Day ]_vars

\* a cycle computed at exactly 23:00:00 for fire time 23:00 sleeps a whole day
NextFireInstantWitness ==
    \E t \in TaskIds :
        /\ tasks[t].pc = "sleep"
        /\ cfgTime = <<Num(23), Num(0)>>
        /\ SecondOfDay(clock) = 23 * Hour
        /\ tasks[t].wakeAt = clock + Day

\* ===================================================================== C3
\* C3: a stop() that passed its guard returns only when the loop task it
\* cancelled has finished, a finished task stays finished, and a loop task
\* whose cancellation is requested takes no step but its exit: from its
\* sleep it ends without the callback.
CooperativeStop ==
    [][ /\ \A t \in awaiting \ awaiting' : tasks[t].pc = "done"
        /\ \A t \in TaskIds :
              /\ tasks[t].pc = "done" => tasks'[t].pc = "done"
              /\ tasks[t].cancelReq => tasks'[t].pc \in {tasks[t].pc, "done"} ]_vars

\* stop() has returned and its loop task is finished; no run ever completed
CooperativeStopWitness ==
    /\ task # NoTask
    /\ tasks[task].pc = "done"
    /\ ~is_running
    /\ awaiting = {}
    /\ DOMAIN completions = {}
    /\ nErrors = 0
    /\ skipped = {}

\* ===================================================================== C4
\* C4: a cycle that fails with an error other than cancellation leaves the
\* task alive in one wait of 60 seconds; from that wait the task goes back
\* to computing the fire instant, never straight into the callback.
BackoffOnFailure ==
    [][ \A t \in TaskIds :
          /\ (/\ tasks[t].pc = "callback"
              /\ tasks'[t].pc # "callback"
              /\ ~tasks[t].cancelReq
              /\ completions' = completions)
                 => tasks'[t].pc = "backoff"
          /\ (/\ tasks'[t].pc = "backoff"
              /\ ~tasks'[t].cancelReq
              /\ tasks'[t] # tasks[t])
                 => tasks'[t].wakeAt = clock + BackoffSeconds
          /\ (/\ tasks[t].pc = "backoff"
              /\ ~tasks[t].cancelReq
              /\ ~tasks'[t].cancelReq
              /\ tasks'[t] # tasks[t])
                 => /\ clock >= tasks[t].wakeAt - 1
                    /\ tasks'[t].pc \in {"sleep", "backoff"}
                    /\ tasks'[t].pc = "sleep" =>
                           /\ tasks'[t].wakeAt > clock
                           /\ tasks'[t].wakeAt <= clock + Day ]_vars

\* the callback raised under a usable fire time: the task is in its 60 s wait
BackoffOnFailureWitness ==
    \E t \in TaskIds :
        /\ tasks[t].pc = "backoff"
        /\ tasks[t].wakeAt = clock + BackoffSeconds
        /\ nErrors = 1
        /\ ValidTime(cfgTime)

\* ===================================================================== C5
\* C5: whatever the number of ON_START events and start() calls, at most one
\* SummaryScheduler is constructed and at most one loop task is alive.
SingleScheduler ==
    /\ nSched <= 1
    /\ Cardinality({ t \in TaskIds : Alive(t) }) <= 1

\* the loop task runs and both a further ON_START event and a further start()
\* call can be handled
SingleSchedulerWitness ==
    /\ started
    /\ nSched = 1
    /\ is_running
    /\ Alive(task)
    /\ cfgEnabled /\ cfgAuto
    /\ nTasks < MaxTasks

\* ===================================================================== C6
\* C6: a start() that finds plugin.enabled or auto_summary.enabled false
\* leaves the scheduler idle (is_running false, no task), and from then on
\* no loop task is created and no callback runs, also when the configuration
\* is switched on later.
DisabledStartStaysIdle ==
    [][ /\ (~started /\ started' /\ (~cfgEnabled \/ ~cfgAuto))
              => (nTasks' = 0 /\ ~is_running' /\ task' = NoTask)
        /\ (started /\ nTasks = 0)
              => /\ nTasks' = 0
                 /\ ~is_running'
                 /\ task' = NoTask
                 /\ \A t \in TaskIds : tasks'[t].pc = "none"
                 /\ DOMAIN completions' = {} ]_vars

\* the flags were switched on after the disabled start and the clock went on
DisabledStartStaysIdleWitness ==
    /\ started
    /\ nTasks = 0
    /\ cfgEnabled /\ cfgAuto
    /\ clock >= Day

\* ===================================================================== C7
\* The score an item of the input brings along: none, or one int() accepts
ScoreAbsent(item) == ~Has(item, "score")
ScoreNonNumeric(item) == item.f["score"].t \in {"null", "list"}
                            \/ (item.f["score"].t = "str"
                                /\ IntOfStr(item.f["score"].s).exc # "none")

NormalRank(item) == Strip(Upper(Str(item.f["rank"])))

\* C7: every entry emitted for an item whose score is absent or non-numeric
\* has the default score of its rank (S 135, A 105, B 75, C 45, D 15), not 0.
RankDependentDefault ==
    RankReturned =>
        \A k \in 1..Len(result.out) :
            LET e == result.out[k]
                item == data[e.src]
            IN (ScoreAbsent(item) \/ ScoreNonNumeric(item))
                   => /\ e.score = RankDefaultScore(e.rank)
                      /\ e.score \in {135, 105, 75, 45, 15}

\* ===================================================================== C8
\* C8: every entry the rank-index validator returns has an integer score
\* between 0 and 150; a score below 0 comes out as 0, one above 150 as 150.
ScoreBound ==
    RankReturned =>
        \A k \in 1..Len(result.out) :
            LET e == result.out[k]
                v == data[e.src].f["score"]
            IN /\ e.score \in 0..150
               /\ (v.t = "int" /\ v.n < 0) => e.score = 0
               /\ (v.t = "int" /\ v.n > 150) => e.score = 150
               /\ (v.t = "int" /\ v.n \in 0..150) => e.score = v.n

\* a score of 200 came out as 150 and a score of -5 as 0
ScoreBoundWitness ==
    /\ RankReturned
    /\ \E k \in 1..Len(result.out) :
          /\ data[result.out[k].src].f["score"] = VInt(200)
          /\ result.out[k].score = 150
    /\ \E k \in 1..Len(result.out) :
          /\ data[result.out[k].src].f["score"] = VInt(-5)
          /\ result.out[k].score = 0

\* ===================================================================== C9
\* C9: the list the rank-index validator returns is non-increasing by score
\* and entries of equal score stand in their input order; it holds exactly
\* the items the loop kept; every other validator returns its entries in
\* input order.
RankOrdering ==
    (vpc = "done" /\ ~result.raised) =>
        /\ \A j, k \in 1..Len(result.out) :
              j < k => result.out[j].src # result.out[k].src
        /\ vkind = "rank" =>
              /\ \A j, k \in 1..Len(result.out) :
                    j < k => /\ result.out[j].score >= result.out[k].score
                             /\ result.out[j].score = result.out[k].score
                                    => result.out[j].src < result.out[k].src
              /\ \A i \in 1..Len(data) :
                    RankEntry(data[i], i, user_stats).kind = "keep"
                        => \E k \in 1..Len(result.out) :
                               result.out[k] = RankEntry(data[i], i, user_stats).e
        /\ vkind # "rank" =>
              \A j, k \in 1..Len(result.out) :
                  j < k => result.out[j].src < result.out[k].src

\* three entries came back: the last input item first, and two entries of
\* equal score behind it in their input order
RankOrderingWitness ==
    /\ RankReturned
    /\ Len(result.out) = 3
    /\ result.out[1].src = 3
    /\ result.out[2].src = 1
    /\ result.out[3].src = 2
    /\ result.out[2].score = result.out[3].score
    /\ result.out[1].score > result.out[2].score

\* ==================================================================== C10
\* C10: an item whose rank, upper-cased and trimmed, is not one of S, A, B,
\* C, D has no entry in the output, and every entry carries the upper-cased,
\* trimmed rank of its own item, one of S, A, B, C, D.
InvalidRankDropped ==
    RankReturned =>
        /\ \A k \in 1..Len(result.out) :
              /\ result.out[k].rank \in ValidRanks
              /\ result.out[k].rank = NormalRank(data[result.out[k].src])
        /\ \A i \in 1..Len(data) :
              (data[i].dict /\ NormalRank(data[i]) \notin ValidRanks)
                  => \A k \in 1..Len(result.out) : result.out[k].src # i

\* an item of rank "SS" and one of rank "X" were dropped, one of rank " a "
\* came out with rank A
InvalidRankDroppedWitness ==
    /\ RankReturned
    /\ \E i \in 1..Len(data) : data[i].f["rank"] = VStr(<<"S", "S">>)
    /\ \E i \in 1..Len(data) : data[i].f["rank"] = VStr(<<"X">>)
    /\ \E k \in 1..Len(result.out) :
          /\ data[result.out[k].src].f["rank"] = VStr(<<" ", "a", " ">>)
          /\ result.out[k].rank = <<"A">>

\* ==================================================================== C11
\* the text the validator reads for a required key is not empty
Filled(item, k) == Has(item, k) /\ Str(item.f[k]) # <<>>

NormalMbti(item) == Strip(Upper(Str(item.f["mbti"])))

\* C11: an item with the four required keys and non-empty name, title and
\* reason is emitted whatever its tag: with its own upper-cased, trimmed tag
\* when that is one of the 16 codes, with ENFP otherwise; so every emitted
\* entry carries one of the 16 codes.
InvalidTagDefaulted ==
    (vkind = "titles" /\ vpc = "done") =>
        /\ ~result.raised
        /\ \A k \in 1..Len(result.out) : result.out[k].mbti \in valid_mbti_types
        /\ \A i \in 1..Len(data) :
              (/\ data[i].dict
               /\ Has(data[i], "mbti")
               /\ Filled(data[i], "name")
               /\ Filled(data[i], "title")
               /\ Filled(data[i], "reason"))
                  => \E k \in 1..Len(result.out) :
                        /\ result.out[k].src = i
                        /\ result.out[k].mbti =
                              IF NormalMbti(data[i]) \in valid_mbti_types
                              THEN NormalMbti(data[i])
                              ELSE <<"E", "N", "F", "P">>

\* an item with tag "xyz1" came out with tag ENFP, next to one that kept INTJ
InvalidTagDefaultedWitness ==
    /\ vkind = "titles"
    /\ vpc = "done"
    /\ \E k \in 1..Len(result.out) :
          /\ data[result.out[k].src].f["mbti"] = VStr(<<"x", "y", "z", "1">>)
          /\ result.out[k].mbti = <<"E", "N", "F", "P">>
    /\ \E k \in 1..Len(result.out) : result.out[k].mbti = <<"I", "N", "T", "J">>

\* ==================================================================== C12
\* a rank-index item the validator has nothing to object to, whatever its score
WellFormedRank(item) ==
    /\ item.dict
    /\ Filled(item, "name")
    /\ Filled(item, "comment")
    /\ Has(item, "rank")
    /\ NormalRank(item) \in ValidRanks

\* C12: whatever items stand beside it (missing keys, invalid values, a score
\* of any JSON type and value, non-finite numbers included), the call
\* returns and every well-formed item of the list has its entry.
BadItemNeverAborts ==
    vpc = "done" =>
        /\ ~result.raised
        /\ vkind = "rank" =>
              \A i \in 1..Len(data) :
                  WellFormedRank(data[i])
                      => \E k \in 1..Len(result.out) : result.out[k].src = i

\* ==================================================================== C13
RECURSIVE SumOver(_, _)
SumOver(f, S) ==
    IF S = {} THEN 0
    ELSE LET x == CHOOSE x \in S : TRUE IN f[x] + SumOver(f, S \ {x})

\* the messages of a transcript that carry a user_id other than ""
WithUserId(messages) ==
    { i \in 1..Len(messages) :
         messages[i].user_id.t # "absent" /\ messages[i].user_id # VStr(<<>>) }

\* C13: the message counts of the users returned add up to the number of
\* messages with a non-empty user_id; a message without user_id, or with an
\* empty one, changes no counter: the result is that of the transcript
\* without it.
MessageConservation ==
    (vkind = "stats" /\ vpc = "done") =>
        /\ SumOver([k \in 1..Len(result.out) |-> result.out[k].message_count],
                   1..Len(result.out)) = Cardinality(WithUserId(data))
        /\ SumOver([k \in 1..Len(result.out) |-> result.out[k].char_count],
                   1..Len(result.out))
              = SumOver([i \in 1..Len(data) |-> Len(TextOf(data[i]))], WithUserId(data))
        /\ \A k \in 1..Len(result.out) :
              /\ result.out[k].user_id # <<>>
              /\ result.out[k].message_count
                    = Cardinality({ i \in WithUserId(data) :
                                       Str(data[i].user_id) = result.out[k].user_id })

\* two users were counted beside a message without user_id and one with ""
MessageConservationWitness ==
    /\ vkind = "stats"
    /\ vpc = "done"
    /\ Len(result.out) = 2
    /\ \E i \in 1..Len(data) : data[i].user_id.t = "absent"
    /\ \E i \in 1..Len(data) : data[i].user_id = VStr(<<>>)

\* ==================================================================== C14
\* C14: for every user returned, the hourly buckets lie in 0..23 and add up
\* to the user's message_count.
HistogramConservation ==
    (vkind = "stats" /\ vpc = "done") =>
        \A k \in 1..Len(result.out) :
            /\ DOMAIN result.out[k].hours \subseteq 0..23
            /\ SumOver(result.out[k].hours, DOMAIN result.out[k].hours)
                  = result.out[k].message_count

\* a user wrote in the last hour of one day and the first hour of the next
HistogramConservationWitness ==
    /\ vkind = "stats"
    /\ vpc = "done"
    /\ \E k \in 1..Len(result.out) :
          /\ result.out[k].message_count >= 3
          /\ {0, 23} \subseteq DOMAIN result.out[k].hours

\* ==================================================================== C15
\* the number of messages of a transcript sent in hour h
SentInHour(messages, h) ==
    Cardinality({ i \in 1..Len(messages) : HourOf(TimeOf(messages[i])) = h })

\* C15 as stated: for every input, the empty one included, the
\* hourly_distribution returned has exactly the keys 0..23, 0 for an hour
\* without messages.
DenseSingleUserHistogram ==
    (vkind = "single" /\ vpc = "done") =>
        /\ DOMAIN result.out.hourly_distribution = 0..23
        /\ \A h \in 0..23 : result.out.hourly_distribution[h] = SentInHour(data, h)

\* C15 amended: for every non-empty input the hourly_distribution returned
\* has exactly the keys 0..23, 0 for an hour without messages; for the empty
\* input it is the empty mapping.
DenseSingleUserHistogramNonEmpty ==
    (vkind = "single" /\ vpc = "done") =>
        IF data = <<>>
        THEN DOMAIN result.out.hourly_distribution = {}
        ELSE /\ DOMAIN result.out.hourly_distribution = 0..23
             /\ \A h \in 0..23 : result.out.hourly_distribution[h] = SentInHour(data, h)

\* messages in two hours: those hold the counts, the other 22 hours hold 0
DenseSingleUserHistogramWitness ==
    /\ vkind = "single"
    /\ vpc = "done"
    /\ Len(data) = 3
    /\ DOMAIN result.out.hours = {8, 23}
    /\ result.out.hourly_distribution[8] + result.out.hourly_distribution[23] = 3
    /\ result.out.hourly_distribution[0] = 0

\* ==================================================================== C16
\* the ranges the pattern names: emoticons, symbols & pictographs, transport
\* & map symbols, flags, supplemental symbols
InNamedRange(c) ==
    \/ c \in 128512..128591
    \/ c \in 127744..128511
    \/ c \in 128640..128767
    \/ c \in 127462..127487
    \/ c \in 129280..129535

\* C16: the emoji count of a text is the number of its codepoints in the
\* emoji ranges: an ideograph or an ASCII character adds 0, every emoji
\* codepoint adds 1.
EmojiCount ==
    (vkind = "emoji" /\ vpc = "done") =>
        result.out = Cardinality({ i \in 1..Len(data) : InNamedRange(data[i]) })

\* ==================================================================== C17
\* a fence line, a well-formed array of mappings, a closing fence and prose
FencedArray(d) ==
    /\ d.str
    /\ d.at = 0
    /\ d.pre \in FenceLines
    /\ d.post \in FenceEnds
    /\ d.body \in ArraysOfMappings

\* C17: recovering a well-formed array of mappings that stands between a
\* fence line (with or without a language tag) and a closing fence followed
\* by prose gives the value that recovering the bare array text gives.
FenceAndProseTolerance ==
    (vkind = ArrayKind /\ vpc = "done" /\ FencedArray(data)) =>
        /\ result.out = JsonLoads(data.body).v
        /\ result.out = parse_llm_json(VStr(data.body)).out

\* ==================================================================== C18
\* a well-formed array of mappings without emoji, standing alone, into which
\* one emoji broke so that json.loads fails on the text
BrokenByEmoji(d) ==
    /\ d.str
    /\ d.at # 0
    /\ d.pre = <<>>
    /\ d.post = <<>>
    /\ d.body \in ArraysOfMappings
    /\ \A i \in 1..Len(d.body) : ~InNamedRange(d.body[i])
    /\ ~JsonLoads(Prepared(ReplyOf(d).s, ArrayKind)).ok

\* C18: when an emoji breaks the direct parse of an otherwise valid array
\* text, the repair tier succeeds with the keys and string values (ideographs
\* and digits included) of the unbroken array.
RepairPreservesContent ==
    (vkind = ArrayKind /\ vpc = "done" /\ BrokenByEmoji(data)) =>
        /\ result.tier = 2
        /\ result.out = JsonLoads(data.body).v

\* ==================================================================== C19
\* both json.loads fail on the reply
BothTiersFail(d, kind) ==
    /\ d.str
    /\ ~JsonLoads(Prepared(ReplyOf(d).s, kind)).ok
    /\ ~JsonLoads(Repair(Prepared(ReplyOf(d).s, kind), kind)).ok

\* C19: a recovery never raises; what it returns is the absent value ([] for
\* arrays, None for objects) or a value of the expected outer type, an array
\* holding mappings only; when both tiers fail it returns the absent value.
RecoveryTotal ==
    vpc = "done" =>
        /\ ~result.raised
        /\ result.out = Failure(vkind) \/ TypeOk(result.out, vkind)
        /\ BothTiersFail(data, vkind) => result.out = Failure(vkind)
        /\ ~data.str => result.out = Failure(vkind)

\* an object reply that both tiers fail on gives None
RecoveryTotalWitness ==
    /\ vkind = ObjectKind
    /\ vpc = "done"
    /\ BothTiersFail(data, ObjectKind)
    /\ data.body \in Mappings
    /\ result.out = VNull
    /\ ~result.raised

DegradedContinuation ==
    vkind = "pipeline" =>
        /\ vpc # "failed"
        /\ \A i \in 1..Len(result) :
              /\ result[i].kind = PipelineOrder[i]
              /\ ~result[i].raised
              /\ result[i].outcome \in {"failure", "raise"} => result[i].out = <<>>
        /\ vpc = "done" => Len(result) = Len(PipelineOrder)
        /\ vpc = "awaiting" => Len(result) < Len(PipelineOrder)
        /\ llm.calls <= Len(result) + (IF vpc = "awaiting" THEN 1 ELSE 0)

\* the first request raised, the third failed, and the last analysis still
\* gave its records
DegradedContinuationWitness ==
    /\ vkind = "pipeline"
    /\ vpc = "done"
    /\ result[1].outcome = "raise"
    /\ result[3].outcome = "failure"
    /\ result[4].outcome = "reply"
    /\ result[4].out # <<>>

\* ==================================================================== C22
\* the configured list holds group numbers only, and the message comes from
\* a group with a number
PlainGroupCase(d) ==
    /\ d.group.t # "absent"
    /\ PyInt(d.group).exc = "none"
    /\ \A i \in 1..Len(d.target_chats) : ChatIdOf(d.target_chats[i]).exc = "none"

Listed(d) ==
    \E i \in 1..Len(d.target_chats) : ChatIdOf(d.target_chats[i]).n = PyInt(d.group).n

\* C22: for /summary and /mysummary alike, blacklist mode refuses exactly the
\* groups of target_chats and whitelist mode accepts exactly the groups of
\* target_chats, so that an empty whitelist refuses every group.
GroupPermissionRule ==
    (vkind \in {SummaryCmd, MySummaryCmd} /\ vpc = "done" /\ PlainGroupCase(data)) =>
        IF data.use_blacklist
        THEN (result.out = "refused") <=> Listed(data)
        ELSE (result.out = "passed") <=> Listed(data)

\* ==================================================================== C23
\* the user the request names, whichever way it names them; NoText when it
\* names nobody that can be found
NamedUser(d) ==
    CASE d.args.form \in {"cq", "pair", "bare"} -> d.args.id
      [] d.args.form = "at" /\ AllDigits(d.args.name) -> d.args.name
      [] d.args.form = "at" ->
             (IF \E i \in 1..Len(d.messages) : d.messages[i].nick = d.args.name
              THEN d.messages[CHOOSE i \in 1..Len(d.messages) :
                       /\ d.messages[i].nick = d.args.name
                       /\ \A j \in 1..(i - 1) : d.messages[j].nick # d.args.name].uid
              ELSE NoText)
      [] OTHER -> NoText

InAllowed(d) ==
    \E i \in 1..Len(d.allowed_users) : PyInt(d.allowed_users[i]).n = IntOfStr(d.current).n

Wrote(d, uid) ==
    Cardinality({ i \in 1..Len(d.messages) : d.messages[i].uid = uid }) >= MinUserMessages

\* C23: with the command disabled nobody gets anything; with it enabled a
\* user who names nobody gets their own summary; a user outside a non-empty
\* allowed_users who names someone else, in any of the four syntaxes, is
\* refused before any analysis or request; with an empty allowed_users the
\* named user's summary is made.
ViewingOthers ==
    (vkind = MySummaryCmd /\ vpc # "check") =>
        /\ ~data.enabled => result.out = "disabled" /\ llm.calls = 0
        /\ (data.enabled /\ data.args.form = "none" /\ Wrote(data, data.current)) =>
              result.subject = data.current /\ llm.calls = 1
        /\ (/\ data.enabled
            /\ data.allowed_users # <<>>
            /\ ~InAllowed(data)
            /\ NamedUser(data) \notin {NoText, data.current}) =>
              result.out = "refused" /\ result.subject = NoText /\ llm.calls = 0
        /\ (data.allowed_users # <<>> /\ ~InAllowed(data) /\ result.subject # NoText) =>
              result.subject = data.current
        /\ (/\ data.enabled
            /\ data.allowed_users = <<>>
            /\ NamedUser(data) # NoText
            /\ Wrote(data, NamedUser(data))) =>
              result.subject = NamedUser(data)

\* user 1, who is not in allowed_users, names user 2 by nickname and is
\* refused without a request
ViewingOthersWitness ==
    /\ vkind = MySummaryCmd
    /\ vpc = "done"
    /\ data.enabled
    /\ data.current = Id1
    /\ data.allowed_users = <<VStr(<<"2">>)>>
    /\ data.args = Args("at", NoText, NickB)
    /\ result.out = "refused"
    /\ llm.calls = 0

\* ==================================================================== C24
UsableContributors(item) ==
    item.dict /\ Has(item, "contributors") /\ item.f["contributors"].t = "list"
    /\ \E i \in 1..Len(item.f["contributors"].l) :
          /\ Truthy(item.f["contributors"].l[i])
          /\ Strip(Str(item.f["contributors"].l[i])) # <<>>

\* C24: the topic validator returns at most 5 topics in input order, each
\* with a title of at most 30 characters, a detail of at most 200, and 1 to 5
\* contributors, every one a trimmed non-empty string of at most 20
\* characters; an item with no usable contributor is not returned.
TopicBounds ==
    (vkind = "topics" /\ vpc = "done") =>
        /\ ~result.raised
        /\ Len(result.out) <= 5
        /\ \A i \in 1..Len(result.out) : \A j \in 1..Len(result.out) :
              i < j => result.out[i].src < result.out[j].src
        /\ \A i \in 1..Len(result.out) :
              LET e == result.out[i]
              IN /\ Len(e.topic) <= 30
                 /\ Len(e.detail) <= 200
                 /\ Len(e.contributors) \in 1..5
                 /\ UsableContributors(data[e.src])
                 /\ \A k \in 1..Len(e.contributors) :
                       /\ e.contributors[k] # <<>>
                       /\ Len(e.contributors[k]) <= 20
                       /\ Strip(e.contributors[k]) = e.contributors[k]

\* ==================================================================== C25
\* C25: the last-fired date changes only in a step in which a callback
\* returns without raising, and the value recorded is the date of the wall
\* clock at that return.
LastFiredIsCompletionDate ==
    [][ last_execution_date' # last_execution_date =>
          /\ completions' # completions
          /\ last_execution_date' = DateOf(clock) ]_vars

\* C25, amended: the last-fired date changes only in a step in which a
\* callback returns without raising, and the value recorded is the date that
\* was read at the wake-up that invoked the callback; a callback that raises,
\* a skipped cycle and a stop leave it unchanged.
LastFiredIsWakeDate ==
    [][ /\ \A t \in TaskIds :
              (tasks[t].pc # "callback" /\ tasks'[t].pc = "callback")
                  => tasks'[t].current_date = DateOf(clock)
        /\ last_execution_date' # last_execution_date =>
              /\ completions' # completions
              /\ \E t \in TaskIds :
                    /\ tasks[t].pc = "callback"
                    /\ tasks'[t].pc # "callback"
                    /\ last_execution_date' = tasks[t].current_date
        /\ (skipped' # skipped \/ is_running' # is_running \/ completions' = completions)
              => last_execution_date' = last_execution_date ]_vars

\* a callback invoked on day 0 returned after midnight: day 0 is recorded
LastFiredIsWakeDateWitness ==
    /\ last_execution_date = 0
    /\ 0 \in DOMAIN completions
    /\ clock = Day
    /\ \E t \in TaskIds : tasks[t].pc = "sleep" /\ tasks[t].wakeAt > clock + Day - Hour

\* ==================================================================== C26
InvokedOn(d) == \E t \in TaskIds : tasks[t].pc = "callback" /\ tasks[t].current_date = d

InvokedAfter(d) ==
    \E t \in TaskIds : tasks[t].pc = "callback" /\ tasks[t].current_date > d

InvalidTimeFallsBack ==
    [][ \A t \in TaskIds :
          (/\ tasks[t].pc \in {"new", "backoff"}
           /\ tasks'[t] # tasks[t]
           /\ is_running
           /\ ~ValidTime(cfgTime)) =>
              /\ tasks'[t].pc = "sleep"
              /\ tasks'[t].wakeAt = NextFire(clock, DefaultHour, DefaultMinute) ]_vars

\* ==================================================================== C28
CeilHalf(n) == (n + 1) \div 2

\* C28: the rank section shows at most max_depression_display entries and no
\* entry of the list twice; in top-and-bottom mode, for a list longer than
\* the maximum, the top part has ceil(max/2) entries and the bottom part
\* max - ceil(max/2).
DisplayedRankingCap ==
    (vkind = "rankings" /\ vpc = "done") =>
        LET max == data.max_depression_display
            out == result.out
        IN /\ Len(out) <= max
           /\ \A i \in 1..Len(out) : \A j \in 1..Len(out) :
                 i # j => out[i].src # out[j].src
           /\ (data.depression_show_bottom /\ Len(data.depression_index) > max) =>
                 /\ Cardinality({ i \in 1..Len(out) : ~out[i].fall }) = CeilHalf(max)
                 /\ Cardinality({ i \in 1..Len(out) : out[i].fall }) = max - CeilHalf(max)

\* ==================================================================== C29
\* C29: whatever the interleaving of the render requests, there is at most
\* one HTMLRenderer, at most one browser has been launched, at most one
\* request is launching at a time, and a request that makes its page has a
\* launched browser.
SingleBrowser ==
    vkind = "render" =>
        /\ data.instances <= 1
        /\ data.launches <= 1
        /\ Cardinality({ r \in Requests : vpc[r] \in {"starting", "launching"} }) <= 1
        /\ \A r \in Requests :
              vpc[r] = "rendering" => data.browser /\ data.initialized /\ result[r].browser

\* a request that arrived during the launch waited and now makes its page
\* with the one browser, while the request that launched it does the same
SingleBrowserWitness ==
    /\ vkind = "render"
    /\ data.launches = 1
    /\ \E r \in Requests : \E q \in Requests :
          /\ r # q
          /\ vpc[r] = "rendering" /\ result[r].waited
          /\ vpc[q] = "rendering" /\ ~result[q].waited

\* ==================================================================== C30
\* C30: whatever the interleaving of the summary requests of one group, the
\* image file a request has produced is there, as that request wrote it,
\* until the request has read it for sending; and once a request has
\* finished, with the image sent or not, the file it wrote is gone.
ImageFileLifetime ==
    vkind = "image" =>
        \A r \in SummaryRequests :
            /\ vpc[r] = "closing" => data.files[result[r].name] = r
            /\ result[r].read \in {"none", "own"}
            /\ vpc[r] = "done" => data.files[result[r].name] # r

====
